---- MODULE Spec2Model ----
(***************************************************************************)
(* Developer_Aggregator: an HTTP gateway whose adapters map one inbound    *)
(* request onto one or more upstream HTTP calls and reshape the answer.    *)
(*                                                                         *)
(* One inbound request is handled at a time (requests share no mutable     *)
(* state); every upstream call is a suspension point, so every action is   *)
(* the piece of a handler that runs between two suspension points.         *)
(*                                                                         *)
(* Text is modelled as a tuple of parts: the literal pieces of an f-string *)
(* and the values interpolated into it, each a string.  An optional value  *)
(* (Python None or a value) is <<>> or <<v>>.                              *)
(***************************************************************************)
EXTENDS Integers, Sequences, FiniteSets, TLC

VARIABLES
  app,      \* the application serving: a gateway facade, or a module's own app
  cfg,      \* module-level settings read from the environment at import time
  ep,       \* the handler serving the current request ("none" when idle)
  param,    \* the request's path and query parameters
  pc,       \* where the handler is suspended
  client,   \* the request's httpx.AsyncClient: "none", "open" or "closed"
  calls,    \* the upstream calls issued for this request, in issue order
  outs,     \* what the upstream answered to each of them, call by call
  batch,    \* fan-out: the first-stage identifier list (story_ids, projects)
  tasks,    \* fan-out: the follow-up tasks given to gather, in argument order
  resp      \* the response, <<>> while the request is being served

vars == <<app, cfg, ep, param, pc, client, calls, outs, batch, tasks, resp>>

(***************************************************************************)
(* Bounds of the model.                                                    *)
(***************************************************************************)
MaxIds == 3      \* longest first-stage identifier list an upstream returns
MaxPipes == 2    \* most pipelines an upstream returns for one project
MaxItems == 2    \* most items in an upstream list that is not fanned out over
MaxLong == 31    \* longest upstream list of SpecCap (one past the largest cap)
MaxContests == 11  \* longest contest list of SpecCap
MaxStories == 11   \* longest story id list of SpecCap

(***************************************************************************)
(* Small helpers.                                                          *)
(***************************************************************************)
Ids == {1, 2}
SeqsUpTo(S, n) == UNION {[1..m -> S] : m \in 0..n}
Take(s, n) == SubSeq(s, 1, IF Len(s) < n THEN Len(s) ELSE n)
Range(s) == {s[i] : i \in 1..Len(s)}
Has(msg, part) == \E i \in 1..Len(msg) : msg[i] = part

RECURSIVE Flatten(_)
Flatten(ss) == IF ss = <<>> THEN <<>> ELSE Head(ss) \o Flatten(Tail(ss))

\* str() of the small integers the model uses (f-string interpolation).
Digit(d) == CASE d = 0 -> "0" [] d = 1 -> "1" [] d = 2 -> "2" [] d = 3 -> "3"
              [] d = 4 -> "4" [] d = 5 -> "5" [] d = 6 -> "6" [] d = 7 -> "7"
              [] d = 8 -> "8" [] d = 9 -> "9"
RECURSIVE Str(_)
Str(n) == IF n < 10 THEN Digit(n) ELSE Str(n \div 10) \o Digit(n % 10)
\* int() of a string of digits.
int(s) == CHOOSE n \in 0..99 : Str(n) = s
\* Python truthiness of an optional int and of an optional str.
TruthyInt(x) == x # <<>> /\ x[1] # 0
TruthyStr(x) == x # <<>> /\ x[1] # ""

(***************************************************************************)
(* Upstream outcomes.                                                      *)
(***************************************************************************)
ErrCodes == {404, 500}
Bodies == {"upstream body A", "upstream body B"}
\* A transport failure (an httpx.RequestError) with the text of the exception.
TransportTexts == {"All connection attempts failed",
                   "Server disconnected without sending a response."}
Transport(t) == [kind |-> "transport", code |-> 0, body |-> "", text |-> t]
StatusErr(c, b) == [kind |-> "status", code |-> c, body |-> b]
Failures == {Transport(t) : t \in TransportTexts} \cup {StatusErr(c, b) : c \in ErrCodes, b \in Bodies}
Success(p) == [kind |-> "ok", payload |-> p]
InFlight == [kind |-> "pending"]
\* The log entry of a follow-up call: its helper reads neither the status
\* code nor the body of a failure, so the log keeps only the kind.
Logged(o) == IF o.kind = "ok" THEN o ELSE [kind |-> o.kind]

(***************************************************************************)
(* Responses.                                                              *)
(***************************************************************************)
\* raise HTTPException(status_code=s, detail=d)
HTTPException(s, d) == [status |-> s, detail |-> d, body |-> <<>>, unhandled |-> FALSE]
\* an exception no handler catches: the framework answers 500
Unhandled(exc) == [status |-> 500, detail |-> <<"Internal Server Error">>,
                   body |-> <<>>, unhandled |-> TRUE, exc |-> exc]
OK(b) == [status |-> 200, detail |-> <<>>, body |-> b, unhandled |-> FALSE]

\* The parameters of a request; a handler reads only the ones it declares.
NoParam == [id |-> "", owner |-> "", repo |-> "", user_id |-> <<>>,
            username |-> <<>>, query |-> <<>>, tagged |-> <<>>, path |-> <<>>]

(***************************************************************************)
(* single_application/hacker_news.py: the fan-out over story ids.          *)
(***************************************************************************)
HN_BASE_URL == "https://hacker-news.firebaseio.com/v0"
StoryCap == 10

story_type(e) == IF e = "hacker_news.get_top_stories" THEN "top" ELSE "new"

\* An item as the upstream sends it: the keys the handler reads.
Item(i, t) == [id |-> i, type |-> t]
\* What GET /item/<id>.json may answer with status 200: a body that is not
\* JSON, the JSON null, or an item with or without its id, of either type.
NotJson == [json |-> FALSE, data |-> <<>>]
Json(d) == [json |-> TRUE, data |-> d]
ItemPayloads(id) ==
  {NotJson, Json(<<>>)}
    \cup {Json(<<Item(i, t)>>) : i \in {<<>>, <<id>>}, t \in {"story", "comment"}}

\* Story(**data): id is required, every other field has a default.
Story(d) == [id |-> d.id[1], type |-> d.type]

\* fetch_item: None on an error status or a transport failure, otherwise
\* resp.json(), which raises on a body that is not JSON.
fetch_item(o) ==
  IF o.kind \in {"status", "transport"} THEN [st |-> "done", val |-> <<>>]
  ELSE IF ~o.payload.json THEN [st |-> "raised", val |-> <<>>]
  ELSE [st |-> "done", val |-> o.payload.data]

\* get_stories_by_type, line 73: keep the truthy results of type story and
\* build a Story of each; a story without an id raises ValidationError.
get_stories_by_type_merge(results) ==
  LET kept == SelectSeq(results, LAMBDA d : d # <<>> /\ d[1].type = "story")
  IN  IF \E j \in 1..Len(kept) : kept[j][1].id = <<>>
      THEN Unhandled("ValidationError")
      ELSE OK([j \in 1..Len(kept) |-> Story(kept[j][1])])

\* A handler that takes a failed first stage for an empty list.
get_stories_by_type_except_swallowed(st, o) == OK(<<>>)

\* get_stories_by_type, lines 74-77: the except clauses around the first call.
get_stories_by_type_except(st, o) ==
  IF o.kind = "status"
  THEN HTTPException(o.code, <<"Failed to fetch ", st, " stories: ", o.body>>)
  ELSE HTTPException(503, <<"Could not connect to the Hacker News API.">>)

(***************************************************************************)
(* single_application/gitlab.py: the fan-out over projects.                *)
(***************************************************************************)
\* os.getenv("GITLAB_URL", "https://gitlab.com"): the setting, <<>> when
\* the environment has none, and the default in its place.
GITLAB_URL == IF cfg.GITLAB_URL = <<>> THEN "https://gitlab.com" ELSE cfg.GITLAB_URL[1]
\* BASE_URL = f"{GITLAB_URL}/api/v4"
GITLAB_BASE_URL == GITLAB_URL \o "/api/v4"

ProjectName(i) == "project-" \o Str(i)
Project(i) == [id |-> i, name |-> ProjectName(i)]

\* A pipeline as the upstream sends it; one without its id stands for a
\* pipeline object that lacks a key the handler indexes.
GoodPipeline == [id |-> <<10>>]
BadPipeline == [id |-> <<>>]
\* The pipeline lists an upstream may answer with: up to n pipelines, all
\* well formed or all but the last.
PipelineLists(n) ==
  {[j \in 1..m |-> GoodPipeline] : m \in 0..n}
    \cup {Append([j \in 1..m |-> GoodPipeline], BadPipeline) : m \in 0..(n - 1)}
Pipeline(name, p) == [project |-> name, pipeline_id |-> p.id[1]]

\* get_gitlab_headers: the token check, <<>> when it passes.
get_gitlab_headers(token) ==
  IF token = ""
  THEN <<HTTPException(500, <<"GITLAB_TOKEN", " not found in .env file.">>)>>
  ELSE <<>>

\* A helper that puts a placeholder record for a project whose call failed.
get_pipelines_for_project_placeholder(project, o) ==
  IF o.kind \in {"status", "transport"}
  THEN [st |-> "done", val |-> <<[project |-> project.name, pipeline_id |-> 0]>>]
  ELSE IF \E j \in 1..Len(o.payload) : o.payload[j].id = <<>>
       THEN [st |-> "raised", val |-> <<>>]
       ELSE [st |-> "done",
             val |-> [j \in 1..Len(o.payload) |-> Pipeline(project.name, o.payload[j])]]

\* get_pipelines_for_project: [] on an error status or a transport failure,
\* otherwise one Pipeline per upstream pipeline; p['id'] raises KeyError.
get_pipelines_for_project(project, o) ==
  IF o.kind \in {"status", "transport"} THEN [st |-> "done", val |-> <<>>]
  ELSE IF \E j \in 1..Len(o.payload) : o.payload[j].id = <<>>
       THEN [st |-> "raised", val |-> <<>>]
       ELSE [st |-> "done",
             val |-> [j \in 1..Len(o.payload) |-> Pipeline(project.name, o.payload[j])]]

\* fetch_pipelines, line 112: flatten the list of lists.
fetch_pipelines_merge(results) == OK(Flatten(results))

\* fetch_pipelines, lines 114-117.
fetch_pipelines_except(o) ==
  IF o.kind = "status"
  THEN HTTPException(o.code,
         <<"Failed to fetch initial projects for pipelines: ", o.body>>)
  ELSE HTTPException(503, <<"Could not connect to the GitLab API.">>)

(***************************************************************************)
(* asyncio.gather: the result of the i-th awaitable is kept at position i,  *)
(* whatever order the tasks completed in.                                  *)
(***************************************************************************)
Pending == [st |-> "pending", val |-> <<>>]

\* A gather that keeps results in the order the tasks completed in.
gather_set_result_as_completed(slots, i, r) ==
  LET free == CHOOSE j \in 1..Len(slots) :
                /\ slots[j].st = "pending"
                /\ \A h \in 1..(j - 1) : slots[h].st # "pending"
  IN  [slots EXCEPT ![free] = r]

gather_set_result(slots, i, r) == [slots EXCEPT ![i] = r]

gather(slots) == [i \in 1..Len(slots) |-> slots[i].val]

(***************************************************************************)
(* The fan-out endpoints as one state machine.                             *)
(***************************************************************************)
HNFan == {"hacker_news.get_top_stories", "hacker_news.get_new_stories"}
FanEndpoints == HNFan \cup {"gitlab.fetch_pipelines"}

FirstUrl(e) ==
  IF e \in HNFan THEN <<HN_BASE_URL, "/", story_type(e), "stories.json">>
  ELSE <<GITLAB_BASE_URL, "/projects">>

\* The first-stage lists an upstream may answer with.
FirstPayloads(e) ==
  IF e \in HNFan THEN SeqsUpTo(Ids, MaxIds)
  ELSE {[i \in 1..Len(s) |-> Project(s[i])] : s \in SeqsUpTo(Ids, MaxIds)}

\* resp.json()[:10] / project_resp.json()
Batch(e, payload) == IF e \in HNFan THEN Take(payload, StoryCap) ELSE payload

FollowUrl(e, x) ==
  IF e \in HNFan THEN <<HN_BASE_URL, "/item/", Str(x), ".json">>
  ELSE <<GITLAB_BASE_URL, "/projects/", Str(x.id), "/pipelines">>

FollowPayloads(e, x) ==
  IF e \in HNFan THEN ItemPayloads(x) ELSE PipelineLists(MaxPipes)

FollowResult(e, x, o) ==
  IF e \in HNFan THEN fetch_item(o) ELSE get_pipelines_for_project(x, o)

Merge(e, results) ==
  IF e \in HNFan THEN get_stories_by_type_merge(results)
  ELSE fetch_pipelines_merge(results)

FirstExcept(e, o) ==
  IF e \in HNFan THEN get_stories_by_type_except(story_type(e), o)
  ELSE fetch_pipelines_except(o)

\* The handler leaves `async with`: the client is closed and the response
\* (a result or an error) goes out.
Answer(r) ==
  /\ pc' = "done"
  /\ client' = "closed"
  /\ resp' = <<r>>

\* A fan-out request arrives; the handler runs to its first await.
StartFan(e, x) ==
  /\ pc = "idle"
  /\ ep' = e
  /\ param' = x
  /\ IF e = "gitlab.fetch_pipelines" /\ get_gitlab_headers(cfg.GITLAB_TOKEN) # <<>>
     THEN \* raised before the client is created
          /\ pc' = "done"
          /\ resp' = get_gitlab_headers(cfg.GITLAB_TOKEN)
          /\ UNCHANGED <<client, calls, outs>>
     ELSE /\ pc' = "call1"
          /\ client' = "open"
          /\ calls' = <<FirstUrl(e)>>
          /\ outs' = <<InFlight>>
          /\ UNCHANGED resp
  /\ UNCHANGED <<app, cfg, batch, tasks>>

\* The first-stage call fails: the except clauses answer.
FanFirstFails(o) ==
  /\ pc = "call1"
  /\ ep \in FanEndpoints
  /\ outs' = <<o>>
  /\ Answer(FirstExcept(ep, o))
  /\ UNCHANGED <<app, cfg, ep, param, calls, batch, tasks>>

\* The first-stage call succeeds: every follow-up task is created and
\* started by gather; with nothing to gather the handler answers at once.
FanFirstReturns(payload) ==
  /\ pc = "call1"
  /\ ep \in FanEndpoints
  /\ outs' = <<Success(payload)>> \o [i \in 1..Len(Batch(ep, payload)) |-> InFlight]
  /\ batch' = Batch(ep, payload)
  /\ tasks' = [i \in 1..Len(batch') |-> Pending]
  /\ calls' = calls \o [i \in 1..Len(batch') |-> FollowUrl(ep, batch'[i])]
  /\ IF batch' = <<>>
     THEN Answer(Merge(ep, gather(tasks')))
     ELSE pc' = "fan" /\ UNCHANGED <<client, resp>>
  /\ UNCHANGED <<app, cfg, ep, param>>

\* Follow-up task i's call ends with outcome o and the task finishes, the
\* handler still suspended in its await of gather and the client open.  The
\* first task to raise, or the last task to finish, completes gather's
\* future, which schedules the handler; until the event loop runs it, the
\* other tasks whose calls have ended finish too.
TaskCompletes(i, o) ==
  /\ pc \in {"fan", "wake"}
  /\ outs[i + 1].kind = "pending"
  /\ outs' = [outs EXCEPT ![i + 1] = Logged(o)]
  /\ tasks' = gather_set_result(tasks, i, FollowResult(ep, batch[i], o))
  /\ pc' = IF \/ \E j \in 1..Len(tasks') : tasks'[j].st = "raised"
              \/ \A j \in 1..Len(tasks') : tasks'[j].st = "done"
           THEN "wake" ELSE "fan"
  /\ UNCHANGED <<app, cfg, ep, param, client, calls, batch, resp>>

\* The handler resumes from its await of gather.  If a task raised, the
\* exception is raised in the handler, which no except clause there catches,
\* and the tasks still running are left running; otherwise every task has
\* finished and the handler merges the results.  Either way the handler
\* leaves the async with block: the client is closed at once and the handler
\* waits for its connections to close, the response not yet given.
GatherReturns ==
  /\ pc = "wake"
  /\ pc' = "closing"
  /\ client' = "closed"
  /\ UNCHANGED <<app, cfg, ep, param, calls, outs, batch, tasks, resp>>

\* The connections have closed: the exception of the task that raised, or
\* the merged results, leave the handler and the request is answered.
HandlerReturns ==
  /\ pc = "closing"
  /\ pc' = "done"
  /\ resp' = <<IF \E j \in 1..Len(tasks) : tasks[j].st = "raised"
               THEN Unhandled("task")
               ELSE Merge(ep, gather(tasks))>>
  /\ UNCHANGED <<app, cfg, ep, param, client, calls, outs, batch, tasks>>

\* A task left running after gather raised ends by itself, while the handler
\* waits for the connections to close or after the request was answered: it
\* returns or raises as any other, but gather's future is done already and
\* nobody reads what the task ended with.
OrphanCompletes(i, o) ==
  /\ pc \in {"closing", "done"}
  /\ outs[i + 1].kind = "pending"
  /\ outs' = [outs EXCEPT ![i + 1] = Logged(o)]
  /\ tasks' = [tasks EXCEPT ![i] = FollowResult(ep, batch[i], o)]
  /\ UNCHANGED <<app, cfg, ep, param, pc, client, calls, batch, resp>>

FollowOutcomes(e, x) ==
  Failures \cup {Success(p) : p \in FollowPayloads(e, x)}

(***************************************************************************)
(* single_application/stackoverflow.py: whose questions, whose answers.    *)
(***************************************************************************)
SO_BASE_URL == "https://api.stackexchange.com/2.3"
UserItemsCap == 10

SOEndpoints == {"stackoverflow.fetch_questions", "stackoverflow.fetch_answers"}
so_what(e) == IF e = "stackoverflow.fetch_questions" THEN "questions" ELSE "answers"

LookupUrl(username) ==
  <<SO_BASE_URL, "/users?order=desc&sort=reputation&inname=", username,
    "&site=stackoverflow">>
UserItemsUrl(e, id) ==
  <<SO_BASE_URL, "/users/", Str(id), "/", so_what(e),
    "?order=desc&sort=creation&site=stackoverflow">>

\* A resolution that looks the configured name up whether it is set or not.
resolve_user_id_always_looks_up(user_id, username, DEFAULT_USER_ID, DEFAULT_USERNAME) ==
  IF TruthyInt(user_id) THEN [via |-> "id", id |-> user_id[1], name |-> ""]
  ELSE IF DEFAULT_USER_ID # "" THEN [via |-> "id", id |-> int(DEFAULT_USER_ID), name |-> ""]
  ELSE IF TruthyStr(username) THEN [via |-> "lookup", id |-> 0, name |-> username[1]]
  ELSE [via |-> "lookup", id |-> 0, name |-> DEFAULT_USERNAME]

\* A resolution that takes an explicit user_id of 0 for an id.
resolve_user_id_zero_is_id(user_id, username, DEFAULT_USER_ID, DEFAULT_USERNAME) ==
  IF user_id # <<>> THEN [via |-> "id", id |-> user_id[1], name |-> ""]
  ELSE IF DEFAULT_USER_ID # "" THEN [via |-> "id", id |-> int(DEFAULT_USER_ID), name |-> ""]
  ELSE IF TruthyStr(username) THEN [via |-> "lookup", id |-> 0, name |-> username[1]]
  ELSE IF DEFAULT_USERNAME # "" THEN [via |-> "lookup", id |-> 0, name |-> DEFAULT_USERNAME]
  ELSE [via |-> "raise", id |-> 0, name |-> ""]

\* A resolution that prefers the explicit username to the configured id.
resolve_user_id_username_first(user_id, username, DEFAULT_USER_ID, DEFAULT_USERNAME) ==
  IF TruthyInt(user_id) THEN [via |-> "id", id |-> user_id[1], name |-> ""]
  ELSE IF TruthyStr(username) THEN [via |-> "lookup", id |-> 0, name |-> username[1]]
  ELSE IF DEFAULT_USER_ID # "" THEN [via |-> "id", id |-> int(DEFAULT_USER_ID), name |-> ""]
  ELSE IF DEFAULT_USERNAME # "" THEN [via |-> "lookup", id |-> 0, name |-> DEFAULT_USERNAME]
  ELSE [via |-> "raise", id |-> 0, name |-> ""]

\* resolve_user_id, up to its await: the id to use, the name to look up, or
\* the 400 it raises.
resolve_user_id(user_id, username, DEFAULT_USER_ID, DEFAULT_USERNAME) ==
  IF TruthyInt(user_id) THEN [via |-> "id", id |-> user_id[1], name |-> ""]
  ELSE IF DEFAULT_USER_ID # "" THEN [via |-> "id", id |-> int(DEFAULT_USER_ID), name |-> ""]
  ELSE IF TruthyStr(username) THEN [via |-> "lookup", id |-> 0, name |-> username[1]]
  ELSE IF DEFAULT_USERNAME # "" THEN [via |-> "lookup", id |-> 0, name |-> DEFAULT_USERNAME]
  ELSE [via |-> "raise", id |-> 0, name |-> ""]

Resolution ==
  resolve_user_id(param.user_id, param.username,
                  cfg.STACKOVERFLOW_USER_ID, cfg.STACKOVERFLOW_USERNAME)

\* What GET /users?inname= may answer with status 200: an object without
\* "items", or with a list of users, the first of which may lack "user_id".
Wrapper(items) == [items |-> items]
UserPayloads ==
  {Wrapper(<<>>), Wrapper(<< <<>> >>)}
    \cup {Wrapper(<< <<[user_id |-> u]>> >>) : u \in {<<>>, <<8>>, <<9>>}}
    \cup {Wrapper(<< <<[user_id |-> <<9>>], [user_id |-> <<8>>]>> >>)}
\* resp.json().get("items", [])
items_of(payload) == IF payload.items = <<>> THEN <<>> ELSE payload.items[1]

\* A lookup that takes the id of the last user found instead of the first.
get_user_id_from_username_last(username, o) ==
  IF o.kind = "status"
  THEN [id |-> <<>>, raised |-> HTTPException(o.code, <<"Failed to fetch user ID.">>)]
  ELSE IF o.kind = "transport"
  THEN [id |-> <<>>,
        raised |-> HTTPException(503, <<"Could not connect to the Stack Exchange API.">>)]
  ELSE IF items_of(o.payload) = <<>>
  THEN [id |-> <<>>,
        raised |-> HTTPException(404, <<"Stack Overflow user '", username, "' not found">>)]
  ELSE IF items_of(o.payload)[Len(items_of(o.payload))].user_id = <<>>
  THEN [id |-> <<>>, raised |-> Unhandled("KeyError")]
  ELSE [id |-> items_of(o.payload)[Len(items_of(o.payload))].user_id, raised |-> <<>>]

\* get_user_id_from_username after its await: <<id>>, or the response raised.
get_user_id_from_username(username, o) ==
  IF o.kind = "status"
  THEN [id |-> <<>>, raised |-> HTTPException(o.code, <<"Failed to fetch user ID.">>)]
  ELSE IF o.kind = "transport"
  THEN [id |-> <<>>,
        raised |-> HTTPException(503, <<"Could not connect to the Stack Exchange API.">>)]
  ELSE IF items_of(o.payload) = <<>>
  THEN [id |-> <<>>,
        raised |-> HTTPException(404, <<"Stack Overflow user '", username, "' not found">>)]
  ELSE IF items_of(o.payload)[1].user_id = <<>>
  THEN [id |-> <<>>, raised |-> Unhandled("KeyError")]
  ELSE [id |-> items_of(o.payload)[1].user_id, raised |-> <<>>]

\* A question or an answer as the upstream sends it; one without its id
\* stands for an object that lacks a required key.
GoodPost == [id |-> <<11>>]
BadPost == [id |-> <<>>]
PostLists(n) ==
  {[j \in 1..m |-> GoodPost] : m \in 0..n}
    \cup {Append([j \in 1..m |-> GoodPost], BadPost) : m \in 0..(n - 1)}
PostPayloads == {Wrapper(<<>>)} \cup {Wrapper(<<l>>) : l \in PostLists(MaxItems)}

Question(q) == [question_id |-> q.id[1]]
AnswerModel(a) ==
  [answer_id |-> a.id[1], link |-> <<"https://stackoverflow.com/a/", Str(a.id[1])>>]

\* fetch_questions / fetch_answers after the await of their own call.
fetch_user_items(e, o) ==
  IF o.kind = "status"
  THEN HTTPException(o.code, <<"Failed to fetch ", so_what(e), ".">>)
  ELSE IF o.kind = "transport" THEN Unhandled("RequestError")
  ELSE LET data == Take(items_of(o.payload), UserItemsCap)
       IN  IF \E j \in 1..Len(data) : data[j].id = <<>>
           THEN Unhandled(IF e = "stackoverflow.fetch_questions"
                          THEN "ValidationError" ELSE "KeyError")
           ELSE OK([j \in 1..Len(data) |->
                     IF e = "stackoverflow.fetch_questions"
                     THEN Question(data[j]) ELSE AnswerModel(data[j])])

SOParams ==
  {[NoParam EXCEPT !.user_id = u, !.username = n] :
     u \in {<<>>, <<0>>, <<5>>}, n \in {<<>>, <<"">>, <<"alice">>}}

\* A questions or answers request arrives: the client is created and
\* resolve_user_id runs to its first await, or to its end.
StartSO(e, p) ==
  /\ pc = "idle"
  /\ ep' = e
  /\ param' = p
  /\ LET r == resolve_user_id(p.user_id, p.username,
                              cfg.STACKOVERFLOW_USER_ID, cfg.STACKOVERFLOW_USERNAME)
     IN  CASE r.via = "raise" ->
                /\ Answer(HTTPException(400,
                     <<"A Stack Overflow user_id or username must be provided.">>))
                /\ UNCHANGED <<calls, outs>>
           [] r.via = "lookup" ->
                /\ pc' = "lookup"
                /\ client' = "open"
                /\ calls' = <<LookupUrl(r.name)>>
                /\ outs' = <<InFlight>>
                /\ UNCHANGED resp
           [] r.via = "id" ->
                /\ pc' = "fetch"
                /\ client' = "open"
                /\ calls' = <<UserItemsUrl(e, r.id)>>
                /\ outs' = <<InFlight>>
                /\ UNCHANGED resp
  /\ UNCHANGED <<app, cfg, batch, tasks>>

\* A name lookup that is tried a second time when its first attempt fails.
SOLookupReturns_retry(o) ==
  /\ pc = "lookup"
  /\ ep \in SOEndpoints
  /\ LET r == get_user_id_from_username(Resolution.name, o)
     IN  IF o.kind # "ok" /\ Len(calls) = 1
         THEN /\ calls' = Append(calls, calls[1])
              /\ outs' = <<o, InFlight>>
              /\ UNCHANGED <<pc, client, resp>>
         ELSE IF r.raised # <<>>
         THEN /\ Answer(r.raised)
              /\ outs' = [outs EXCEPT ![Len(outs)] = o]
              /\ UNCHANGED calls
         ELSE /\ pc' = "fetch"
              /\ calls' = Append(calls, UserItemsUrl(ep, r.id[1]))
              /\ outs' = [outs EXCEPT ![Len(outs)] = o] \o <<InFlight>>
              /\ UNCHANGED <<client, resp>>
  /\ UNCHANGED <<app, cfg, ep, param, batch, tasks>>

\* The name lookup ends: its error goes out, or the handler's own call is
\* issued for the id of the first user found.
SOLookupReturns(o) ==
  /\ pc = "lookup"
  /\ ep \in SOEndpoints
  /\ LET r == get_user_id_from_username(Resolution.name, o)
     IN  IF r.raised # <<>>
         THEN /\ Answer(r.raised)
              /\ outs' = <<o>>
              /\ UNCHANGED calls
         ELSE /\ pc' = "fetch"
              /\ calls' = Append(calls, UserItemsUrl(ep, r.id[1]))
              /\ outs' = <<o, InFlight>>
              /\ UNCHANGED <<client, resp>>
  /\ UNCHANGED <<app, cfg, ep, param, batch, tasks>>

\* The handler's own call ends.
SOFetchReturns(o) ==
  /\ pc = "fetch"
  /\ ep \in SOEndpoints
  /\ outs' = [outs EXCEPT ![Len(outs)] = o]
  /\ Answer(fetch_user_items(ep, o))
  /\ UNCHANGED <<app, cfg, ep, param, calls, batch, tasks>>

(***************************************************************************)
(* The endpoints that make one upstream call (GitHub /pulls: two), each    *)
(* handler as the response it gives to the outcome of its call.            *)
(***************************************************************************)
\* str(exc) of an httpx.RequestError
ExcText(o) == o.text
\* str(e) of an httpx.HTTPStatusError, as raise_for_status words it: the
\* class of the status, the status and its reason phrase, the url and a
\* second line with a link about the status; not the body.
ErrorType(code) == IF code \div 100 = 4 THEN "Client error" ELSE "Server error"
ReasonPhrase(code) ==
  CASE code = 404 -> "Not Found"
    [] code = 500 -> "Internal Server Error"
StatusText(o, url) ==
  <<ErrorType(o.code), " '", Str(o.code), " ", ReasonPhrase(o.code), "' for url '">>
    \o url
    \o <<"'\nFor more information check: ",
         "https://developer.mozilla.org/en-US/docs/Web/HTTP/Status/", Str(o.code)>>

\* An upstream object of which the handler needs one key; <<>>: key absent.
MissingId(l) == \E j \in 1..Len(l) : l[j].id = <<>>
Map(l, F(_)) == [j \in 1..Len(l) |-> F(l[j])]
\* The answer of FastAPI to a request whose declared parameter is missing
\* or too short; the handler is not entered.
RequestValidationError(field) ==
  [status |-> 422, detail |-> <<"validation error: ", field>>, body |-> <<>>,
   unhandled |-> FALSE]

(***************************************************************************)
(* single_application/devto.py                                             *)
(***************************************************************************)
DEVTO_BASE_URL == "https://dev.to/api"

\* get_headers: the key check, <<>> when it passes.
devto_get_headers(API_KEY) ==
  IF API_KEY = ""
  THEN <<HTTPException(500, <<"DEVTO_API_KEY", " not found in .env file.">>)>>
  ELSE <<>>

Article(a) == [id |-> a.id[1]]

fetch_articles(o) ==
  CASE o.kind = "status" ->
         HTTPException(o.code, <<"Error fetching articles: ", o.body>>)
    [] o.kind = "transport" ->
         HTTPException(503, <<"Service unavailable: ", ExcText(o)>>)
    [] o.kind = "ok" ->
         IF MissingId(o.payload) THEN Unhandled("KeyError")
         ELSE OK(Map(o.payload, Article))

fetch_single_article(article_id, o) ==
  CASE o.kind = "status" ->
         IF o.code = 404
         THEN HTTPException(404, <<"Article with ID ", Str(article_id), " not found.">>)
         ELSE HTTPException(o.code, <<"Error fetching article: ", o.body>>)
    [] o.kind = "transport" ->
         HTTPException(503, <<"Service unavailable: ", ExcText(o)>>)
    [] o.kind = "ok" ->
         IF o.payload.id = <<>> THEN Unhandled("KeyError")
         ELSE OK(Article(o.payload))

(***************************************************************************)
(* single_application/github.py                                            *)
(***************************************************************************)
GITHUB_BASE_URL == "https://api.github.com"

\* get_headers: the token check, <<>> when it passes.
github_get_headers(TOKEN) ==
  IF TOKEN = ""
  THEN <<HTTPException(500,
           <<"GITHUB_TOKEN", " not found. Please create a .env file with your token.">>)>>
  ELSE <<>>

Repo(r) == [id |-> r.id[1]]
Issue(i) == [id |-> i.id[1]]
PullRequest(pr) == [id |-> pr.id[1]]

fetch_repos(o) ==
  CASE o.kind = "status" ->
         HTTPException(o.code, <<"Failed to fetch GitHub repos: ", o.body>>)
    [] o.kind = "transport" ->
         HTTPException(503, <<"Could not connect to the GitHub API.">>)
    [] o.kind = "ok" ->
         IF MissingId(o.payload) THEN Unhandled("KeyError")
         ELSE OK(Map(o.payload, Repo))

github_fetch_issues(o) ==
  CASE o.kind = "status" ->
         HTTPException(o.code, <<"Failed to fetch GitHub issues: ", o.body>>)
    [] o.kind = "transport" ->
         HTTPException(503, <<"Could not connect to the GitHub API.">>)
    [] o.kind = "ok" ->
         IF MissingId(o.payload) THEN Unhandled("KeyError")
         ELSE OK(Map(o.payload, Issue))

\* fetch_my_pull_requests, lines 92-97: what its except clauses make of an
\* exception raised in the try block.  `exc` is "status", "transport" or the
\* name of any other exception, get_headers' HTTPException included.
fetch_my_pull_requests_except(exc, o) ==
  IF exc = "status"
  THEN HTTPException(o.code, <<"Failed to fetch GitHub pull requests: ", o.body>>)
  ELSE HTTPException(500, <<"An unexpected error occurred while fetching PRs.">>)

\* fetch_my_pull_requests after the await of GET /user: <<login>>, or the
\* response raised.
fetch_my_pull_requests_user(o) ==
  IF o.kind \in {"status", "transport"}
  THEN [login |-> <<>>, raised |-> <<fetch_my_pull_requests_except(o.kind, o)>>]
  ELSE IF o.payload.login = <<>>
  THEN [login |-> <<>>, raised |-> <<fetch_my_pull_requests_except("KeyError", o)>>]
  ELSE [login |-> o.payload.login, raised |-> <<>>]

\* fetch_my_pull_requests after the await of the search: the items go out
\* as they came, and FastAPI validates them against list[Issue].
fetch_my_pull_requests(o) ==
  IF o.kind \in {"status", "transport"}
  THEN fetch_my_pull_requests_except(o.kind, o)
  ELSE IF MissingId(items_of(o.payload)) THEN Unhandled("ResponseValidationError")
  ELSE OK(Map(items_of(o.payload), Issue))

fetch_pull_requests(owner, repo, o) ==
  CASE o.kind = "status" ->
         IF o.code = 404
         THEN HTTPException(404, <<"Repository ", owner, "/", repo, " not found.">>)
         ELSE HTTPException(o.code,
                <<"Failed to fetch pull requests for ", owner, "/", repo, ": ", o.body>>)
    [] o.kind = "transport" ->
         HTTPException(503, <<"Could not connect to the GitHub API.">>)
    [] o.kind = "ok" ->
         IF MissingId(o.payload) THEN Unhandled("KeyError")
         ELSE OK(Map(o.payload, PullRequest))

(***************************************************************************)
(* single_application/gitlab.py: projects and issues.                      *)
(***************************************************************************)
GitlabProject(p) == [id |-> p.id[1]]
GitlabIssue(i) == [id |-> i.id[1]]

fetch_projects(o) ==
  CASE o.kind = "status" ->
         HTTPException(o.code, <<"Failed to fetch GitLab projects: ", o.body>>)
    [] o.kind = "transport" ->
         HTTPException(503, <<"Could not connect to the GitLab API.">>)
    [] o.kind = "ok" ->
         IF MissingId(o.payload) THEN Unhandled("KeyError")
         ELSE OK(Map(o.payload, GitlabProject))

gitlab_fetch_issues(o) ==
  CASE o.kind = "status" ->
         HTTPException(o.code, <<"Failed to fetch GitLab issues: ", o.body>>)
    [] o.kind = "transport" ->
         HTTPException(503, <<"Could not connect to the GitLab API.">>)
    [] o.kind = "ok" ->
         IF MissingId(o.payload) THEN Unhandled("KeyError")
         ELSE OK(Map(o.payload, GitlabIssue))

(***************************************************************************)
(* single_application/kaggle.py                                            *)
(***************************************************************************)
KAGGLE_BASE_URL == "https://www.kaggle.com/api/v1"

\* A check of the credentials that lets everything through.
get_kaggle_auth_unchecked(KAGGLE_USERNAME, KAGGLE_KEY) == <<>>

\* get_kaggle_auth: the credentials check, <<>> when it passes.
get_kaggle_auth(KAGGLE_USERNAME, KAGGLE_KEY) ==
  IF KAGGLE_USERNAME = "" \/ KAGGLE_KEY = ""
  THEN <<HTTPException(500,
           <<"KAGGLE_USERNAME", " or ", "KAGGLE_KEY", " not found in .env file.">>)>>
  ELSE <<>>

\* The upstream object's one key stands for 'ref'.
Dataset(d) ==
  [ref |-> Str(d.id[1]),
   url |-> <<"https://www.kaggle.com/datasets/", Str(d.id[1])>>]
Competition(c) == [ref |-> Str(c.id[1])]

fetch_datasets(o) ==
  CASE o.kind = "status" ->
         HTTPException(o.code, <<"Failed to fetch Kaggle datasets: ", o.body>>)
    [] o.kind = "transport" ->
         HTTPException(503, <<"Could not connect to the Kaggle API.">>)
    [] o.kind = "ok" ->
         IF MissingId(o.payload) THEN Unhandled("KeyError")
         ELSE OK(Map(o.payload, Dataset))

fetch_competitions(o) ==
  CASE o.kind = "status" ->
         HTTPException(o.code, <<"Failed to fetch Kaggle competitions: ", o.body>>)
    [] o.kind = "transport" ->
         HTTPException(503, <<"Could not connect to the Kaggle API.">>)
    [] o.kind = "ok" ->
         IF MissingId(o.payload) THEN Unhandled("KeyError")
         ELSE OK(Map(o.payload, Competition))

(***************************************************************************)
(* single_application/codeforces.py                                        *)
(***************************************************************************)
CF_BASE_URL == "https://codeforces.com/api"
ContestCap == 10

\* What contest.list and user.info answer with status 200: an object with
\* or without "result".
Result(r) == [result |-> r]
ContestObjects ==
  {[id |-> i, phase |-> ph] : i \in {<<>>, <<11>>}, ph \in {"BEFORE", "FINISHED"}}
ContestPayloads ==
  {Result(<<>>)} \cup {Result(<<l>>) : l \in SeqsUpTo(ContestObjects, MaxItems)}
\* A user as the upstream sends it, with or without the time it was last
\* online, in seconds since the epoch.
UserObjects ==
  {[handle |-> h, lastOnlineTimeSeconds |-> t] :
     h \in {<<>>, <<"tourist">>}, t \in {<<>>, <<0>>, <<1700000000>>}}
CFUserPayloads ==
  {Result(<<>>), Result(<< <<>> >>)} \cup {Result(<< <<u>> >>) : u \in UserObjects}

Contest(c) ==
  [id |-> c.id[1], phase |-> c.phase,
   link |-> <<"https://codeforces.com/contest/", Str(c.id[1])>>]

\* A handler that cuts the upstream list to the cap before filtering it.
get_contests_cap_first(o) ==
  CASE o.kind = "status" ->
         HTTPException(500, <<"Failed to fetch or parse contests: ">>
                              \o StatusText(o, <<CF_BASE_URL, "/contest.list">>))
    [] o.kind = "transport" ->
         HTTPException(503, <<"Could not connect to the Codeforces API.">>)
    [] o.kind = "ok" ->
         IF o.payload.result = <<>>
         THEN HTTPException(500, <<"Failed to fetch or parse contests: ", "'result'">>)
         ELSE LET before == SelectSeq(Take(o.payload.result[1], ContestCap),
                                      LAMBDA c : c.phase = "BEFORE")
              IN  IF MissingId(before)
                  THEN HTTPException(500, <<"Failed to fetch or parse contests: ", "'id'">>)
                  ELSE OK(Map(before, Contest))

get_contests(o) ==
  CASE o.kind = "status" ->
         HTTPException(500, <<"Failed to fetch or parse contests: ">>
                              \o StatusText(o, <<CF_BASE_URL, "/contest.list">>))
    [] o.kind = "transport" ->
         HTTPException(503, <<"Could not connect to the Codeforces API.">>)
    [] o.kind = "ok" ->
         IF o.payload.result = <<>>
         THEN HTTPException(500, <<"Failed to fetch or parse contests: ", "'result'">>)
         ELSE LET before == SelectSeq(o.payload.result[1],
                                      LAMBDA c : c.phase = "BEFORE")
              IN  IF MissingId(before)
                  THEN HTTPException(500, <<"Failed to fetch or parse contests: ", "'id'">>)
                  ELSE OK(Take(Map(before, Contest), ContestCap))

\* Two digits, zero padded (%m, %d, %H, %M, %S).
Pad2(n) == IF n < 10 THEN "0" \o Str(n) ELSE Str(n)
\* The civil date of a day counted from 1970-01-01, as %Y-%m-%d.
date(days) ==
  LET z == days + 719468
      era == z \div 146097
      doe == z - era * 146097
      yoe == (doe - doe \div 1460 + doe \div 36524 - doe \div 146096) \div 365
      doy == doe - (365 * yoe + yoe \div 4 - yoe \div 100)
      mp == (5 * doy + 2) \div 153
      d == doy - (153 * mp + 2) \div 5 + 1
      m == IF mp < 10 THEN mp + 3 ELSE mp - 9
      y == yoe + era * 400 + (IF m <= 2 THEN 1 ELSE 0)
  IN  Str(y) \o "-" \o Pad2(m) \o "-" \o Pad2(d)
\* datetime.fromtimestamp(timestamp).strftime("%Y-%m-%d %H:%M:%S") in a
\* process whose local time is utcoffset seconds ahead of UTC.
strftime(timestamp, utcoffset) ==
  LET t == timestamp + utcoffset
      s == t % 86400
  IN  date(t \div 86400) \o " " \o Pad2(s \div 3600) \o ":"
        \o Pad2((s % 3600) \div 60) \o ":" \o Pad2(s % 60)
\* format_time: None for None and for 0; fromtimestamp is given no tz, so
\* the time is formatted in the local time zone of the process.
format_time(timestamp) ==
  IF ~TruthyInt(timestamp) THEN <<>> ELSE <<strftime(timestamp[1], cfg.TZ)>>

UserInfo(u) ==
  [handle |-> u.handle[1],
   lastOnline |-> format_time(u.lastOnlineTimeSeconds),
   profileLink |-> <<"https://codeforces.com/profile/", u.handle[1]>>]

\* get_default_user_info, line 66: the check of the configured handle.
get_default_user_info_check(DEFAULT_CODEFORCES_HANDLE) ==
  IF DEFAULT_CODEFORCES_HANDLE = ""
  THEN <<HTTPException(400,
           <<"CODEFORCES_HANDLE", " is not set in the environment file.">>)>>
  ELSE <<>>

get_default_user_info(handle, o) ==
  CASE o.kind = "status" ->
         HTTPException(404,
           <<"Default Codeforces user '", handle, "' not found or API error.">>)
    [] o.kind = "transport" ->
         HTTPException(503, <<"Could not connect to the Codeforces API.">>)
    [] o.kind = "ok" ->
         IF \/ o.payload.result = <<>>
            \/ o.payload.result[1] = <<>>
            \/ o.payload.result[1][1].handle = <<>>
         THEN HTTPException(404, <<"Default Codeforces user '", handle, "' not found.">>)
         ELSE OK(UserInfo(o.payload.result[1][1]))

\* A handler that builds the profile link from the handle in the path.
get_user_info_echo(handle, o) ==
  CASE o.kind = "status" ->
         HTTPException(404, <<"Codeforces user '", handle, "' not found or API error.">>)
    [] o.kind = "transport" ->
         HTTPException(503, <<"Could not connect to the Codeforces API.">>)
    [] o.kind = "ok" ->
         IF \/ o.payload.result = <<>>
            \/ o.payload.result[1] = <<>>
            \/ o.payload.result[1][1].handle = <<>>
         THEN HTTPException(404, <<"Codeforces user '", handle, "' not found.">>)
         ELSE OK([UserInfo(o.payload.result[1][1]) EXCEPT
                    !.profileLink = <<"https://codeforces.com/profile/", handle>>])

get_user_info(handle, o) ==
  CASE o.kind = "status" ->
         HTTPException(404, <<"Codeforces user '", handle, "' not found or API error.">>)
    [] o.kind = "transport" ->
         HTTPException(503, <<"Could not connect to the Codeforces API.">>)
    [] o.kind = "ok" ->
         IF \/ o.payload.result = <<>>
            \/ o.payload.result[1] = <<>>
            \/ o.payload.result[1][1].handle = <<>>
         THEN HTTPException(404, <<"Codeforces user '", handle, "' not found.">>)
         ELSE OK(UserInfo(o.payload.result[1][1]))

(***************************************************************************)
(* single_application/gfg.py                                               *)
(***************************************************************************)
GFG_STATS_URL == "https://geeks-for-geeks-stats-api.vercel.app/?raw=y&userName="
GFG_POTD_URL == "https://www.geeksforgeeks.org/problem-of-the-day"

\* Bodies that are not JSON, and the stats answer with such a body.
BadBodies == {"", "not json", "{", "[1,"}
NotJsonBody(b) == [json |-> FALSE, data |-> <<>>, text |-> b]
StatsPayloads ==
  {NotJsonBody(b) : b \in BadBodies} \cup {Json([totalProblemsSolved |-> n]) : n \in {<<>>, <<3>>}}
\* The page: whether the POTD container is there and, within it, the link.
Page(div, a) == [div |-> div, a |-> a]
PotdPayloads == {Page(FALSE, <<>>), Page(TRUE, <<>>), Page(TRUE, <<"/problems/x">>)}

GFGStats(data) == [totalSolved |-> data.totalProblemsSolved]

\* str(e) of the json.JSONDecodeError that resp.json() raises on a body
\* that is not JSON: what the decoder missed and where in the body.
JSONDecodeErrorText(b) ==
  CASE b = "{" ->
         "Expecting property name enclosed in double quotes: line 1 column 2 (char 1)"
    [] b = "[1," -> "Expecting value: line 1 column 4 (char 3)"
    [] b \in {"", "not json"} -> "Expecting value: line 1 column 1 (char 0)"

get_gfg_stats(username, o) ==
  CASE o.kind = "status" ->
         HTTPException(o.code, <<"GFG stats fetch failed for user '", username,
                                 "'. The user may not exist.">>)
    [] o.kind = "transport" ->
         HTTPException(503, <<"Could not connect to the GFG stats service.">>)
    [] o.kind = "ok" ->
         IF ~o.payload.json
         THEN HTTPException(500, <<"An unexpected error occurred: ",
                                   JSONDecodeErrorText(o.payload.text)>>)
         ELSE OK(GFGStats(o.payload.data))

get_gfg_potd(o) ==
  IF o.kind \in {"status", "transport"}
  THEN HTTPException(500, <<"Failed to fetch or parse the GFG POTD page.">>)
  ELSE IF o.payload.div /\ o.payload.a # <<>>
  THEN OK([title |-> <<"title">>, link |-> o.payload.a])
  ELSE OK([title |-> <<"Could not parse POTD title/link from page">>,
           link |-> <<GFG_POTD_URL>>])

(***************************************************************************)
(* single_application/hacker_news.py: one item, one user.                  *)
(***************************************************************************)
\* get_story_item: fetch_item's None, a null and an empty item are a 404.
get_story_item(item_id, o) ==
  LET r == fetch_item(o)
  IN  IF r.st = "raised" THEN Unhandled("JSONDecodeError")
      ELSE IF r.val = <<>>
      THEN HTTPException(404, <<"Item with ID ", Str(item_id),
                                " not found or failed to fetch.">>)
      ELSE IF r.val[1].id = <<>> THEN Unhandled("ValidationError")
      ELSE OK(Story(r.val[1]))

\* What GET /user/<id>.json may answer with status 200: a body that is not
\* JSON, the JSON null, or a user with or without its id.
HNUserPayloads(user_id) ==
  {NotJson, Json(<<>>)} \cup {Json(<<[id |-> u]>>) : u \in {<<>>, <<user_id>>}}

User(d) == [id |-> d.id[1]]

\* fetch_user: the user data, or the response raised.
fetch_user(user_id, o) ==
  CASE o.kind = "status" ->
         [data |-> <<>>,
          raised |-> <<HTTPException(o.code, <<"Failed to fetch user: ", o.body>>)>>]
    [] o.kind = "transport" ->
         [data |-> <<>>,
          raised |-> <<HTTPException(503, <<"Could not connect to the Hacker News API.">>)>>]
    [] o.kind = "ok" ->
         IF ~o.payload.json
         THEN [data |-> <<>>, raised |-> <<Unhandled("JSONDecodeError")>>]
         ELSE IF o.payload.data = <<>>
         THEN [data |-> <<>>,
               raised |-> <<HTTPException(404, <<"User '", user_id, "' not found">>)>>]
         ELSE [data |-> o.payload.data, raised |-> <<>>]

get_hn_user(user_id, o) ==
  LET r == fetch_user(user_id, o)
  IN  IF r.raised # <<>> THEN r.raised[1]
      ELSE IF r.data[1].id = <<>> THEN Unhandled("ValidationError")
      ELSE OK(User(r.data[1]))

(***************************************************************************)
(* single_application/stackoverflow.py: the featured questions.            *)
(***************************************************************************)
FeaturedCap == 15

\* A featured question as the upstream sends it: id stands for 'title';
\* item.get(...) of an absent key is None, which no field of the model takes.
FeaturedObjects ==
  {[id |-> i, bounty_amount |-> b] : i \in {<<>>, <<11>>}, b \in {<<>>, <<50>>}}
FeaturedPayloads ==
  {Wrapper(<<>>)} \cup {Wrapper(<<l>>) : l \in SeqsUpTo(FeaturedObjects, MaxItems)}
FeaturedQuestion(item) ==
  [title |-> Str(item.id[1]), bounty_amount |-> item.bounty_amount[1]]

fetch_featured_questions(o) ==
  CASE o.kind = "status" ->
         HTTPException(o.code, <<"Failed to fetch featured questions.">>)
    [] o.kind = "transport" ->
         HTTPException(503, <<"Could not connect to the Stack Exchange API.">>)
    [] o.kind = "ok" ->
         LET data == Take(items_of(o.payload), FeaturedCap)
         IN  IF MissingId(data) \/ \E j \in 1..Len(data) : data[j].bounty_amount = <<>>
             THEN Unhandled("ValidationError")
             ELSE OK(Map(data, FeaturedQuestion))

(***************************************************************************)
(* endpoints/github_ep.py                                                  *)
(***************************************************************************)
\* The upstream object's one key stands for 'tag_name'.
Release(r) == [tag_name |-> IF r.id = <<>> THEN "No Tag" ELSE Str(r.id[1])]

fetch_releases(owner, repo, o) ==
  CASE o.kind = "status" ->
         IF o.code = 404
         THEN HTTPException(404, <<"Repository '", owner, "/", repo, "' not found.">>)
         ELSE HTTPException(o.code, <<"Error fetching releases: ", o.body>>)
    [] o.kind = "transport" ->
         HTTPException(503, <<"Service unavailable: ", ExcText(o)>>)
    [] o.kind = "ok" -> OK(Map(o.payload, Release))

(***************************************************************************)
(* endpoints/hn.py                                                         *)
(***************************************************************************)
ALGOLIA_BASE_URL == "http://hn.algolia.com/api/v1"

Hit(i, t) == [id |-> i, title |-> t]
HitObjects == {Hit(<<11>>, <<"t">>), Hit(<<11>>, <<>>), Hit(<<>>, <<"t">>)}
HitPayloads ==
  {[hits |-> <<>>]} \cup {[hits |-> <<l>>] : l \in SeqsUpTo(HitObjects, MaxItems)}

\* The upstream object's id stands for 'objectID'.
SearchStory(hit) == [objectID |-> Str(hit.id[1]), title |-> hit.title[1]]

search_hacker_news(query, o) ==
  CASE o.kind = "status" ->
         HTTPException(o.code, <<"Error searching Hacker News: ", o.body>>)
    [] o.kind = "transport" ->
         HTTPException(503, <<"Service unavailable: ", ExcText(o)>>)
    [] o.kind = "ok" ->
         LET results == IF o.payload.hits = <<>> THEN <<>> ELSE o.payload.hits[1]
             titled == SelectSeq(results, LAMBDA hit : hit.title # <<>>)
         IN  IF MissingId(titled) THEN Unhandled("ValidationError")
             ELSE OK(Map(titled, SearchStory))

(***************************************************************************)
(* endpoints/npm.py                                                        *)
(***************************************************************************)
NPM_BASE_URL == "https://registry.npmjs.org"

\* The package document: the keys the handlers read, each there or not.
NpmPayloads == {[name |-> n, latest |-> v] : n \in {<<>>, <<"left-pad">>},
                                             v \in {<<>>, <<"1.3.0">>}}

get_or(x, default) == IF x = <<>> THEN default ELSE x[1]

fetch_npm_package(package_name, o) ==
  CASE o.kind = "status" ->
         IF o.code = 404
         THEN HTTPException(404, <<"Package '", package_name, "' not found on npm.">>)
         ELSE HTTPException(o.code, <<"Error fetching npm package: ", o.body>>)
    [] o.kind = "transport" ->
         HTTPException(503, <<"Service unavailable: ", ExcText(o)>>)
    [] o.kind = "ok" ->
         OK([name |-> get_or(o.payload.name, package_name),
             latest_version |-> get_or(o.payload.latest, "0.0.0")])

fetch_npm_latest(package_name, o) ==
  CASE o.kind = "status" ->
         IF o.code = 404
         THEN HTTPException(404, <<"Package '", package_name, "' not found on npm.">>)
         ELSE HTTPException(o.code, <<"Error fetching npm version: ", o.body>>)
    [] o.kind = "transport" ->
         HTTPException(503, <<"Service unavailable: ", ExcText(o)>>)
    [] o.kind = "ok" ->
         OK([package_name |-> get_or(o.payload.name, package_name),
             latest_version |-> get_or(o.payload.latest, "0.0.0")])

(***************************************************************************)
(* endpoints/pypi.py                                                       *)
(***************************************************************************)
PYPI_BASE_URL == "https://pypi.org/pypi"

\* The package document, with or without "info".
PypiPayloads ==
  {[info |-> <<>>]}
    \cup {[info |-> <<[name |-> n, version |-> v]>>] :
            n \in {<<>>, <<"requests">>}, v \in {<<>>, <<"2.0">>}}

fetch_package_details(package_name, o) ==
  CASE o.kind = "status" ->
         IF o.code = 404
         THEN HTTPException(404, <<"Package '", package_name, "' not found on PyPI.">>)
         ELSE HTTPException(o.code, <<"Error fetching package details: ", o.body>>)
    [] o.kind = "transport" ->
         HTTPException(503, <<"Service unavailable: ", ExcText(o)>>)
    [] o.kind = "ok" ->
         IF o.payload.info = <<>> THEN Unhandled("KeyError")
         ELSE OK([name |-> get_or(o.payload.info[1].name, "No Name"),
                  version |-> get_or(o.payload.info[1].version, "0.0.0")])

fetch_latest_version(package_name, o) ==
  CASE o.kind = "status" ->
         IF o.code = 404
         THEN HTTPException(404, <<"Package '", package_name, "' not found on PyPI.">>)
         ELSE HTTPException(o.code, <<"Error fetching package version: ", o.body>>)
    [] o.kind = "transport" ->
         HTTPException(503, <<"Service unavailable: ", ExcText(o)>>)
    [] o.kind = "ok" ->
         IF o.payload.info = <<>> THEN Unhandled("KeyError")
         ELSE OK([package_name |-> get_or(o.payload.info[1].name, package_name),
                  latest_version |-> get_or(o.payload.info[1].version, "0.0.0")])

(***************************************************************************)
(* endpoints/reddit.py                                                     *)
(***************************************************************************)
REDDIT_BASE_URL == "https://www.reddit.com"

\* The listing: {"data": {"children": [...]}}, either level there or not.
\* A post as the upstream sends it: p["data"] with or without the keys the
\* handler reads.
RedditObjects ==
  {[id |-> i, permalink |-> l, subreddit |-> r] :
     i \in {<<>>, <<11>>}, l \in {<<>>, <<"/r/rust/comments/11">>},
     r \in {<<>>, <<"rust">>}}
RedditPayloads ==
  {[children |-> <<>>]}
    \cup {[children |-> <<l>>] : l \in SeqsUpTo(RedditObjects, MaxItems)}

\* Post(...): the subreddit falls back to the path parameter, the url is
\* the base url followed by the permalink, '' when absent.
Post(p, subreddit) ==
  [id |-> Str(p.id[1]),
   subreddit |-> IF p.subreddit = <<>> THEN subreddit ELSE p.subreddit[1],
   url |-> <<REDDIT_BASE_URL>> \o p.permalink]

search_subreddit(subreddit, query, o) ==
  CASE o.kind = "status" ->
         HTTPException(o.code, <<"Error searching Reddit: ", o.body>>)
    [] o.kind = "transport" ->
         HTTPException(503, <<"Service unavailable: ", ExcText(o)>>)
    [] o.kind = "ok" ->
         LET results == IF o.payload.children = <<>> THEN <<>>
                        ELSE o.payload.children[1]
         IN  IF MissingId(results) THEN Unhandled("ValidationError")
             ELSE OK([j \in 1..Len(results) |-> Post(results[j], subreddit)])

(***************************************************************************)
(* endpoints/so.py                                                         *)
(***************************************************************************)
\* A question as the search upstream sends it, with or without its owner.
SearchObjects ==
  {[id |-> i, owner |-> w] : i \in {<<>>, <<11>>}, w \in {<<>>, <<"alice">>}}
SearchPayloads ==
  {Wrapper(<<>>)} \cup {Wrapper(<<l>>) : l \in SeqsUpTo(SearchObjects, MaxItems)}
SearchQuestion(q) == [question_id |-> q.id[1], owner |-> q.owner[1]]

\* SearchResponse(**resp.json()) requires "items" and every question whole.
search_stackoverflow(query, tagged, o) ==
  CASE o.kind = "status" ->
         HTTPException(o.code, <<"Error searching Stack Overflow: ", o.body>>)
    [] o.kind = "transport" ->
         HTTPException(503, <<"Service unavailable: ", ExcText(o)>>)
    [] o.kind = "ok" ->
         IF \/ o.payload.items = <<>>
            \/ MissingId(o.payload.items[1])
            \/ \E j \in 1..Len(o.payload.items[1]) : o.payload.items[1][j].owner = <<>>
         THEN Unhandled("ValidationError")
         ELSE OK(Map(o.payload.items[1], SearchQuestion))

(***************************************************************************)
(* The one-call endpoints as one state machine.                            *)
(***************************************************************************)
DevtoEndpoints == {"devto.fetch_articles", "devto.fetch_single_article"}
GithubEndpoints == {"github.fetch_repos", "github.fetch_issues",
                    "github.fetch_my_pull_requests", "github.fetch_pull_requests"}
GitlabEndpoints == {"gitlab.fetch_projects", "gitlab.fetch_issues"}
KaggleEndpoints == {"kaggle.fetch_datasets", "kaggle.fetch_competitions"}
CodeforcesEndpoints == {"codeforces.get_contests", "codeforces.get_default_user_info",
                        "codeforces.get_user_info"}
GfgEndpoints == {"gfg.get_gfg_stats", "gfg.get_gfg_potd"}
NpmEndpoints == {"npm.fetch_npm_package", "npm.fetch_npm_latest"}
PypiEndpoints == {"pypi.fetch_package_details", "pypi.fetch_latest_version"}
CallEndpoints ==
  DevtoEndpoints \cup GithubEndpoints \cup GitlabEndpoints \cup KaggleEndpoints
    \cup CodeforcesEndpoints \cup GfgEndpoints \cup NpmEndpoints \cup PypiEndpoints
    \cup {"hacker_news.get_story_item", "hacker_news.get_hn_user",
          "stackoverflow.fetch_featured_questions", "github_ep.fetch_releases",
          "hn.search_hacker_news", "reddit.search_subreddit", "so.search_stackoverflow"}

Queries == {<<>>, <<"">>, <<"python">>}
\* The requests the model sends to an endpoint.
Params(e) ==
  CASE e \in {"devto.fetch_single_article", "hacker_news.get_story_item"} ->
         {[NoParam EXCEPT !.id = "7"]}
    [] e \in {"github.fetch_pull_requests", "github_ep.fetch_releases"} ->
         {[NoParam EXCEPT !.owner = "octocat", !.repo = "hello"]}
    [] e = "codeforces.get_user_info" -> {[NoParam EXCEPT !.id = "petr"]}
    [] e = "gfg.get_gfg_stats" -> {[NoParam EXCEPT !.id = "alice"]}
    [] e = "hacker_news.get_hn_user" -> {[NoParam EXCEPT !.id = "pg"]}
    [] e \in NpmEndpoints -> {[NoParam EXCEPT !.id = "left-pad"]}
    [] e \in PypiEndpoints -> {[NoParam EXCEPT !.id = "requests"]}
    [] e = "hn.search_hacker_news" -> {[NoParam EXCEPT !.query = q] : q \in Queries}
    [] e = "reddit.search_subreddit" ->
         {[NoParam EXCEPT !.id = "python", !.query = q] : q \in Queries}
    [] e = "so.search_stackoverflow" ->
         {[NoParam EXCEPT !.query = q, !.tagged = t] :
            q \in Queries, t \in {<<>>, <<"pandas">>}}
    [] OTHER -> {NoParam}

\* The Query(...) declarations: a required parameter that is missing, or
\* shorter than min_length, is answered by FastAPI; <<>> when they pass.
validate(e, p) ==
  CASE e \in {"hn.search_hacker_news", "reddit.search_subreddit"} ->
         IF p.query = <<>> \/ Len(p.query[1]) < 1
         THEN <<RequestValidationError("query")>> ELSE <<>>
    [] e = "so.search_stackoverflow" ->
         IF p.query = <<>> THEN <<RequestValidationError("q")>>
         ELSE IF p.tagged = <<>> THEN <<RequestValidationError("tagged")>>
         ELSE <<>>
    [] OTHER -> <<>>

\* The handlers that check their settings inside `async with`, in the
\* arguments of client.get; the others check before creating the client.
ChecksInsideClient == DevtoEndpoints \cup GithubEndpoints

\* The check of the settings a handler makes before its call: <<>> when it
\* passes, otherwise the response the request ends with.
Gate(e) ==
  CASE e \in DevtoEndpoints -> devto_get_headers(cfg.DEVTO_API_KEY)
    [] e = "github.fetch_my_pull_requests" ->
         IF github_get_headers(cfg.GITHUB_TOKEN) = <<>> THEN <<>>
         ELSE <<fetch_my_pull_requests_except("HTTPException", InFlight)>>
    [] e \in GithubEndpoints \ {"github.fetch_my_pull_requests"} ->
         github_get_headers(cfg.GITHUB_TOKEN)
    [] e \in GitlabEndpoints -> get_gitlab_headers(cfg.GITLAB_TOKEN)
    [] e \in KaggleEndpoints -> get_kaggle_auth(cfg.KAGGLE_USERNAME, cfg.KAGGLE_KEY)
    [] e = "codeforces.get_default_user_info" ->
         get_default_user_info_check(cfg.CODEFORCES_HANDLE)
    [] OTHER -> <<>>

\* The url of the handler's first call.
Url(e, p) ==
  CASE e = "devto.fetch_articles" -> <<DEVTO_BASE_URL, "/articles/latest">>
    [] e = "devto.fetch_single_article" -> <<DEVTO_BASE_URL, "/articles/", Str(int(p.id))>>
    [] e = "github.fetch_repos" ->
         <<GITHUB_BASE_URL, "/user/repos?sort=updated&per_page=10">>
    [] e = "github.fetch_issues" ->
         <<GITHUB_BASE_URL, "/issues?filter=assigned&sort=updated&per_page=10">>
    [] e = "github.fetch_my_pull_requests" -> <<GITHUB_BASE_URL, "/user">>
    [] e = "github.fetch_pull_requests" ->
         <<GITHUB_BASE_URL, "/repos/", p.owner, "/", p.repo, "/pulls">>
    [] e = "gitlab.fetch_projects" -> <<GITLAB_BASE_URL, "/projects">>
    [] e = "gitlab.fetch_issues" -> <<GITLAB_BASE_URL, "/issues">>
    [] e = "kaggle.fetch_datasets" -> <<KAGGLE_BASE_URL, "/datasets/list">>
    [] e = "kaggle.fetch_competitions" -> <<KAGGLE_BASE_URL, "/competitions/list">>
    [] e = "codeforces.get_contests" -> <<CF_BASE_URL, "/contest.list">>
    [] e = "codeforces.get_default_user_info" ->
         <<CF_BASE_URL, "/user.info?handles=", cfg.CODEFORCES_HANDLE>>
    [] e = "codeforces.get_user_info" -> <<CF_BASE_URL, "/user.info?handles=", p.id>>
    [] e = "gfg.get_gfg_stats" -> <<GFG_STATS_URL, p.id>>
    [] e = "gfg.get_gfg_potd" -> <<GFG_POTD_URL>>
    [] e = "hacker_news.get_story_item" -> <<HN_BASE_URL, "/item/", Str(int(p.id)), ".json">>
    [] e = "hacker_news.get_hn_user" -> <<HN_BASE_URL, "/user/", p.id, ".json">>
    [] e = "stackoverflow.fetch_featured_questions" ->
         <<SO_BASE_URL, "/questions/featured?order=desc&sort=activity&site=stackoverflow">>
    [] e = "github_ep.fetch_releases" ->
         <<GITHUB_BASE_URL, "/repos/", p.owner, "/", p.repo, "/releases">>
    [] e = "hn.search_hacker_news" ->
         <<ALGOLIA_BASE_URL, "/search", "?query=", p.query[1], "&tags=story">>
    [] e \in NpmEndpoints -> <<NPM_BASE_URL, "/", p.id>>
    [] e \in PypiEndpoints -> <<PYPI_BASE_URL, "/", p.id, "/json">>
    [] e = "reddit.search_subreddit" ->
         <<REDDIT_BASE_URL, "/r/", p.id, "/search.json", "?q=", p.query[1],
           "&restrict_sr=on&limit=25">>
    [] e = "so.search_stackoverflow" ->
         <<SO_BASE_URL, "/search", "?site=stackoverflow&intitle=", p.query[1],
           "&tagged=", p.tagged[1], "&sort=relevance&order=desc">>

\* fetch_my_pull_requests, lines 82-83.
PullsSearchUrl(username) ==
  <<GITHUB_BASE_URL, "/search/issues?q=", "is:pr is:open involves:", username,
    "&sort=updated&per_page=10">>

\* What GET /user may answer with status 200.
LoginPayloads == {[login |-> l] : l \in {<<>>, <<"octocat">>}}

\* What the upstream of the handler's last call may answer with status 200.
Payloads(e, p) ==
  CASE e \in {"devto.fetch_articles", "github.fetch_repos", "github.fetch_issues",
              "github.fetch_pull_requests", "github_ep.fetch_releases"}
            \cup GitlabEndpoints \cup KaggleEndpoints -> PostLists(MaxItems)
    [] e = "devto.fetch_single_article" -> {GoodPost, BadPost}
    [] e = "github.fetch_my_pull_requests" -> PostPayloads
    [] e = "stackoverflow.fetch_featured_questions" -> FeaturedPayloads
    [] e = "so.search_stackoverflow" -> SearchPayloads
    [] e = "codeforces.get_contests" -> ContestPayloads
    [] e \in {"codeforces.get_default_user_info", "codeforces.get_user_info"} ->
         CFUserPayloads
    [] e = "gfg.get_gfg_stats" -> StatsPayloads
    [] e = "gfg.get_gfg_potd" -> PotdPayloads
    [] e = "hacker_news.get_story_item" -> ItemPayloads(int(p.id))
    [] e = "hacker_news.get_hn_user" -> HNUserPayloads(p.id)
    [] e = "hn.search_hacker_news" -> HitPayloads
    [] e \in NpmEndpoints -> NpmPayloads
    [] e \in PypiEndpoints -> PypiPayloads
    [] e = "reddit.search_subreddit" -> RedditPayloads
    [] OTHER -> {}

Outcomes(e, p) == Failures \cup {Success(x) : x \in Payloads(e, p)}

\* The response of handler e to the outcome of its last call.
Respond(e, p, o) ==
  CASE e = "devto.fetch_articles" -> fetch_articles(o)
    [] e = "devto.fetch_single_article" -> fetch_single_article(int(p.id), o)
    [] e = "github.fetch_repos" -> fetch_repos(o)
    [] e = "github.fetch_issues" -> github_fetch_issues(o)
    [] e = "github.fetch_my_pull_requests" -> fetch_my_pull_requests(o)
    [] e = "github.fetch_pull_requests" -> fetch_pull_requests(p.owner, p.repo, o)
    [] e = "gitlab.fetch_projects" -> fetch_projects(o)
    [] e = "gitlab.fetch_issues" -> gitlab_fetch_issues(o)
    [] e = "kaggle.fetch_datasets" -> fetch_datasets(o)
    [] e = "kaggle.fetch_competitions" -> fetch_competitions(o)
    [] e = "codeforces.get_contests" -> get_contests(o)
    [] e = "codeforces.get_default_user_info" ->
         get_default_user_info(cfg.CODEFORCES_HANDLE, o)
    [] e = "codeforces.get_user_info" -> get_user_info(p.id, o)
    [] e = "gfg.get_gfg_stats" -> get_gfg_stats(p.id, o)
    [] e = "gfg.get_gfg_potd" -> get_gfg_potd(o)
    [] e = "hacker_news.get_story_item" -> get_story_item(int(p.id), o)
    [] e = "hacker_news.get_hn_user" -> get_hn_user(p.id, o)
    [] e = "stackoverflow.fetch_featured_questions" -> fetch_featured_questions(o)
    [] e = "github_ep.fetch_releases" -> fetch_releases(p.owner, p.repo, o)
    [] e = "hn.search_hacker_news" -> search_hacker_news(p.query[1], o)
    [] e = "npm.fetch_npm_package" -> fetch_npm_package(p.id, o)
    [] e = "npm.fetch_npm_latest" -> fetch_npm_latest(p.id, o)
    [] e = "pypi.fetch_package_details" -> fetch_package_details(p.id, o)
    [] e = "pypi.fetch_latest_version" -> fetch_latest_version(p.id, o)
    [] e = "reddit.search_subreddit" -> search_subreddit(p.id, p.query[1], o)
    [] e = "so.search_stackoverflow" ->
         search_stackoverflow(p.query[1], p.tagged[1], o)

\* A request for a one-call endpoint arrives: FastAPI validates it, then
\* the handler runs to its first await, or to the exception its check of
\* the settings raises.
StartCall(e, p) ==
  /\ pc = "idle"
  /\ ep' = e
  /\ param' = p
  /\ IF validate(e, p) # <<>>
     THEN /\ pc' = "done"
          /\ resp' = validate(e, p)
          /\ UNCHANGED <<client, calls, outs>>
     ELSE IF Gate(e) # <<>>
     THEN /\ pc' = "done"
          /\ resp' = Gate(e)
          /\ client' = IF e \in ChecksInsideClient THEN "closed" ELSE client
          /\ UNCHANGED <<calls, outs>>
     ELSE /\ pc' = IF e = "github.fetch_my_pull_requests" THEN "user" ELSE "call"
          /\ client' = "open"
          /\ calls' = <<Url(e, p)>>
          /\ outs' = <<InFlight>>
          /\ UNCHANGED resp
  /\ UNCHANGED <<app, cfg, batch, tasks>>

\* GitHub /pulls: GET /user ends; its error goes out, or the search is
\* issued for the login it returned.
PullsUserReturns(o) ==
  /\ pc = "user"
  /\ LET r == fetch_my_pull_requests_user(o)
     IN  IF r.raised # <<>>
         THEN /\ Answer(r.raised[1])
              /\ outs' = <<o>>
              /\ UNCHANGED calls
         ELSE /\ pc' = "call"
              /\ calls' = Append(calls, PullsSearchUrl(r.login[1]))
              /\ outs' = <<o, InFlight>>
              /\ UNCHANGED <<client, resp>>
  /\ UNCHANGED <<app, cfg, ep, param, batch, tasks>>

\* The handler's last call ends and the handler answers.
CallReturns(o) ==
  /\ pc = "call"
  /\ outs' = [outs EXCEPT ![Len(outs)] = o]
  /\ Answer(Respond(ep, param, o))
  /\ UNCHANGED <<app, cfg, ep, param, calls, batch, tasks>>

\* The response has gone out; the next request finds nothing of this one.
Finish ==
  /\ pc = "done"
  /\ ep' = "none"
  /\ param' = NoParam
  /\ pc' = "idle"
  /\ client' = "none"
  /\ calls' = <<>>
  /\ outs' = <<>>
  /\ batch' = <<>>
  /\ tasks' = <<>>
  /\ resp' = <<>>
  /\ UNCHANGED <<app, cfg>>

(***************************************************************************)
(* Configuration: read once when the modules are imported.                 *)
(***************************************************************************)
AllSet == [DEVTO_API_KEY |-> "k", GITHUB_TOKEN |-> "t", GITLAB_TOKEN |-> "t",
           KAGGLE_USERNAME |-> "u", KAGGLE_KEY |-> "k",
           STACKOVERFLOW_USER_ID |-> "", STACKOVERFLOW_USERNAME |-> "",
           CODEFORCES_HANDLE |-> "tourist", GITLAB_URL |-> <<>>, TZ |-> 0]
\* The GitLab instances the environment may name; <<>>: it names none.
GitlabUrls == {<<>>, <<"https://gitlab.example.org">>}
\* The local time zones a process may run in, as seconds ahead of UTC.
TimeZones == {0, 19800}

Idle ==
  /\ ep = "none" /\ param = NoParam /\ pc = "idle" /\ client = "none"
  /\ calls = <<>> /\ outs = <<>> /\ batch = <<>> /\ tasks = <<>> /\ resp = <<>>
\* The modules; each declares a router and an app of its own.
Modules == {"devto", "kaggle", "codeforces", "gitlab", "github", "hacker_news",
            "stackoverflow", "gfg", "github_ep", "hn", "npm", "pypi", "reddit", "so"}
\* A module run on its own: its router mounted alone in its own app.
Quiet == app = "standalone" /\ Idle

\* The root route that single_application/github.py declares on its own app.
read_root ==
  [message |-> "Welcome to the GitHub Aggregator API. Visit /docs for documentation."]
\* The handlers an own app declares itself beside its router's, by path.
OwnRoutes(m) ==
  IF m = "github" THEN {[path |-> <<>>, handler |-> "github.read_root"]} ELSE {}

\* GET / on module m's own app: the root route answers where the app declares
\* one; no other own app has a route at the root.
ServeOwnRoot(m) ==
  /\ pc = "idle"
  /\ app = "standalone"
  /\ param' = NoParam
  /\ pc' = "done"
  /\ IF \E r \in OwnRoutes(m) : r.path = <<>>
     THEN /\ ep' = (CHOOSE r \in OwnRoutes(m) : r.path = <<>>).handler
          /\ resp' = <<OK(read_root)>>
     ELSE /\ ep' = "none"
          /\ resp' = <<HTTPException(404, <<"Not Found">>)>>
  /\ UNCHANGED <<app, cfg, client, calls, outs, batch, tasks>>

(***************************************************************************)
(* SpecFan: the fan-out endpoints, with the GitLab token set or not and    *)
(* with the GitLab instance named or not.                                  *)
(***************************************************************************)
InitFan ==
  /\ cfg \in {[AllSet EXCEPT !.GITLAB_TOKEN = t, !.GITLAB_URL = u] :
               t \in {"", "t"}, u \in GitlabUrls}
  /\ Quiet

NextFan ==
  \/ \E e \in FanEndpoints : StartFan(e, NoParam)
  \/ \E o \in Failures : FanFirstFails(o)
  \/ \E p \in FirstPayloads(ep) : FanFirstReturns(p)
  \/ \E i \in 1..Len(batch) : \E o \in FollowOutcomes(ep, batch[i]) : TaskCompletes(i, o)
  \/ \E i \in 1..Len(batch) : \E o \in FollowOutcomes(ep, batch[i]) : OrphanCompletes(i, o)
  \/ GatherReturns
  \/ HandlerReturns
  \/ Finish

SpecFan == InitFan /\ [][NextFan]_vars

(***************************************************************************)
(* SpecSO: the Stack Overflow questions and answers endpoints, with every  *)
(* combination of configured default id and default username.              *)
(***************************************************************************)
InitSO ==
  /\ cfg \in {[AllSet EXCEPT !.STACKOVERFLOW_USER_ID = i, !.STACKOVERFLOW_USERNAME = n] :
               i \in {"", "7"}, n \in {"", "bob"}}
  /\ Quiet

NextSO ==
  \/ \E e \in SOEndpoints : \E p \in SOParams : StartSO(e, p)
  \/ \E o \in Failures \cup {Success(u) : u \in UserPayloads} : SOLookupReturns(o)
  \/ \E o \in Failures \cup {Success(q) : q \in PostPayloads} : SOFetchReturns(o)
  \/ Finish

SpecSO == InitSO /\ [][NextSO]_vars

(***************************************************************************)
(* SpecCall: the one-call endpoints, with every setting present, with one  *)
(* of them missing, and with all of them missing.                          *)
(***************************************************************************)
NoneSet == [DEVTO_API_KEY |-> "", GITHUB_TOKEN |-> "", GITLAB_TOKEN |-> "",
            KAGGLE_USERNAME |-> "", KAGGLE_KEY |-> "",
            STACKOVERFLOW_USER_ID |-> "", STACKOVERFLOW_USERNAME |-> "",
            CODEFORCES_HANDLE |-> "", GITLAB_URL |-> <<>>, TZ |-> 0]

InitCall ==
  /\ cfg \in {AllSet, NoneSet,
              [AllSet EXCEPT !.DEVTO_API_KEY = ""],
              [AllSet EXCEPT !.GITHUB_TOKEN = ""],
              [AllSet EXCEPT !.GITLAB_TOKEN = ""],
              [AllSet EXCEPT !.KAGGLE_USERNAME = ""],
              [AllSet EXCEPT !.KAGGLE_KEY = ""],
              [AllSet EXCEPT !.CODEFORCES_HANDLE = ""],
              [AllSet EXCEPT !.GITLAB_URL = <<"https://gitlab.example.org">>],
              [AllSet EXCEPT !.TZ = 19800]}
  /\ Quiet

NextCall ==
  \/ \E e \in CallEndpoints : \E p \in Params(e) : StartCall(e, p)
  \/ \E m \in Modules : ServeOwnRoot(m)
  \/ \E o \in Failures \cup {Success(l) : l \in LoginPayloads} : PullsUserReturns(o)
  \/ \E o \in Outcomes(ep, param) : CallReturns(o)
  \/ Finish

SpecCall == InitCall /\ [][NextCall]_vars

(***************************************************************************)
(* SpecCap: the list endpoints answering upstream lists longer than their  *)
(* caps; every upstream call succeeds and every object is well formed.     *)
(***************************************************************************)
\* Object number j of a long upstream list.
Numbered(j) == [id |-> <<j>>]
LongLists == {[j \in 1..n |-> Numbered(j)] : n \in 0..MaxLong}
\* Contest lists: contest j has id j and either phase.
LongContestLists ==
  UNION {{[j \in 1..n |-> [id |-> <<j>>, phase |-> ph[j]]] :
            ph \in [1..n -> {"BEFORE", "FINISHED"}]} : n \in 0..MaxContests}
\* Story id lists 1..n; item j is a story or a comment.
LongIdLists == {[j \in 1..n |-> j] : n \in 0..MaxStories}
TypedItems(id) == {Success(Json(<<Item(<<id>>, t)>>)) : t \in {"story", "comment"}}

CapEndpoints ==
  {"devto.fetch_articles", "github.fetch_repos", "github_ep.fetch_releases",
   "codeforces.get_contests", "stackoverflow.fetch_featured_questions"}

LongPayloads(e) ==
  CASE e \in {"devto.fetch_articles", "github.fetch_repos", "github_ep.fetch_releases"} ->
         LongLists
    [] e = "stackoverflow.fetch_featured_questions" ->
         {Wrapper(<<[j \in 1..Len(l) |-> [id |-> l[j].id, bounty_amount |-> <<50>>]]>>) :
            l \in LongLists}
    [] e = "codeforces.get_contests" -> {Result(<<l>>) : l \in LongContestLists}
    [] OTHER -> {}

InitCap ==
  /\ cfg = [AllSet EXCEPT !.STACKOVERFLOW_USER_ID = "7"]
  /\ Quiet

NextCap ==
  \/ StartFan("hacker_news.get_top_stories", NoParam)
  \/ \E p \in LongIdLists : FanFirstReturns(p)
  \/ \E i \in 1..Len(batch) : \E o \in TypedItems(batch[i]) : TaskCompletes(i, o)
  \/ GatherReturns
  \/ HandlerReturns
  \/ \E e \in CapEndpoints : \E p \in Params(e) : StartCall(e, p)
  \/ \E x \in LongPayloads(ep) : CallReturns(Success(x))
  \/ \E e \in SOEndpoints : StartSO(e, NoParam)
  \/ \E l \in LongLists : SOFetchReturns(Success(Wrapper(<<l>>)))
  \/ Finish

SpecCap == InitCap /\ [][NextCap]_vars

(***************************************************************************)
(* The gateway facades: aggregator/aggregator_main.py, aggregator/main.py  *)
(* and aggregator/ep.py.  A path is the tuple of its segments; a route is  *)
(* a path template and the handler declared under it.  Every route of the  *)
(* repository is a GET route.                                              *)
(***************************************************************************)
Facades == {"aggregator_main", "main", "ep"}
Route(t, h) == [t |-> t, h |-> h]
\* The segments of a template that stand for a path parameter.
ParamSegs == {"{article_id}", "{item_id}", "{user_id}", "{handle}", "{username}",
              "{package_name}", "{owner}", "{repo}", "{subreddit}"}

\* The routes each module declares on its router, in declaration order.
RouterRoutes(m) ==
  CASE m = "devto" ->
         <<Route(<<"articles">>, "devto.fetch_articles"),
           Route(<<"article", "{article_id}">>, "devto.fetch_single_article")>>
    [] m = "kaggle" ->
         <<Route(<<"datasets">>, "kaggle.fetch_datasets"),
           Route(<<"competitions">>, "kaggle.fetch_competitions")>>
    [] m = "codeforces" ->
         <<Route(<<"contests">>, "codeforces.get_contests"),
           Route(<<"userinfo", "me">>, "codeforces.get_default_user_info"),
           Route(<<"userinfo", "{handle}">>, "codeforces.get_user_info")>>
    [] m = "gitlab" ->
         <<Route(<<"projects">>, "gitlab.fetch_projects"),
           Route(<<"issues">>, "gitlab.fetch_issues"),
           Route(<<"pipelines">>, "gitlab.fetch_pipelines")>>
    [] m = "github" ->
         <<Route(<<"repos">>, "github.fetch_repos"),
           Route(<<"issues">>, "github.fetch_issues"),
           Route(<<"pulls">>, "github.fetch_my_pull_requests"),
           Route(<<"repos", "{owner}", "{repo}", "pulls">>, "github.fetch_pull_requests")>>
    [] m = "hacker_news" ->
         <<Route(<<"topstories">>, "hacker_news.get_top_stories"),
           Route(<<"newstories">>, "hacker_news.get_new_stories"),
           Route(<<"item", "{item_id}">>, "hacker_news.get_story_item"),
           Route(<<"user", "{user_id}">>, "hacker_news.get_hn_user")>>
    [] m = "stackoverflow" ->
         <<Route(<<"featured">>, "stackoverflow.fetch_featured_questions"),
           Route(<<"questions">>, "stackoverflow.fetch_questions"),
           Route(<<"answers">>, "stackoverflow.fetch_answers")>>
    [] m = "gfg" ->
         <<Route(<<"stats", "{username}">>, "gfg.get_gfg_stats"),
           Route(<<"potd">>, "gfg.get_gfg_potd")>>
    [] m = "github_ep" ->
         <<Route(<<"{owner}", "{repo}", "releases">>, "github_ep.fetch_releases")>>
    [] m = "hn" -> <<Route(<<"search">>, "hn.search_hacker_news")>>
    [] m = "npm" ->
         <<Route(<<"{package_name}">>, "npm.fetch_npm_package"),
           Route(<<"{package_name}", "latest">>, "npm.fetch_npm_latest")>>
    [] m = "pypi" ->
         <<Route(<<"{package_name}">>, "pypi.fetch_package_details"),
           Route(<<"{package_name}", "latest">>, "pypi.fetch_latest_version")>>
    [] m = "reddit" ->
         <<Route(<<"r", "{subreddit}", "search">>, "reddit.search_subreddit")>>
    [] m = "so" -> <<Route(<<"search">>, "so.search_stackoverflow")>>

\* app.include_router(router, prefix=...), in the order of the calls.
Include(prefix, m) == [prefix |-> prefix, module |-> m]
\* A registry that mounts both GitHub routers under the one prefix.
aggregator_main_routers_both ==
  <<Include("devto", "devto"), Include("kaggle", "kaggle"),
    Include("codeforces", "codeforces"), Include("gitlab", "gitlab"),
    Include("pypi", "pypi"), Include("npm", "npm"), Include("reddit", "reddit"),
    Include("github", "github"), Include("github", "github_ep"),
    Include("hackernews", "hacker_news"), Include("stackoverflow", "stackoverflow")>>
aggregator_main_routers ==
  <<Include("devto", "devto"), Include("kaggle", "kaggle"),
    Include("codeforces", "codeforces"), Include("gitlab", "gitlab"),
    Include("pypi", "pypi"), Include("npm", "npm"), Include("reddit", "reddit"),
    Include("github", "github"), Include("hackernews", "hacker_news"),
    Include("stackoverflow", "stackoverflow")>>
main_routers ==
  <<Include("github", "github"), Include("stackoverflow", "stackoverflow"),
    Include("hackernews", "hacker_news"), Include("devto", "devto"),
    Include("kaggle", "kaggle"), Include("codeforces", "codeforces"),
    Include("gitlab", "gitlab")>>
ep_routers ==
  <<Include("pypi", "pypi"), Include("npm", "npm"), Include("github", "github_ep"),
    Include("hackernews", "hn"), Include("reddit", "reddit"),
    Include("stackoverflow", "so")>>
Included(f) ==
  CASE f = "aggregator_main" -> aggregator_main_routers
    [] f = "main" -> main_routers
    [] f = "ep" -> ep_routers
    [] OTHER -> <<>>

\* The routes a facade declares on the app itself, after the routers.
AppRoutes(f) ==
  CASE f = "aggregator_main" ->
         <<Route(<<"features">>, "features"), Route(<<>>, "read_root")>>
    [] f = "main" -> <<Route(<<"features">>, "features"), Route(<<>>, "root")>>
    [] f = "ep" -> <<Route(<<>>, "read_root")>>
\* The routes FastAPI() registers when the app is constructed, before any
\* router is included: the schema and the documentation pages.
DocRoutes ==
  <<Route(<<"openapi.json">>, "openapi"),
    Route(<<"docs">>, "swagger_ui_html"),
    Route(<<"docs", "oauth2-redirect">>, "swagger_ui_redirect"),
    Route(<<"redoc">>, "redoc_html")>>
DocHandlers == {DocRoutes[i].h : i \in 1..Len(DocRoutes)}
AppHandlers == {"features", "read_root", "root"} \cup DocHandlers
\* The message of a facade's root route.
root_message(f) ==
  CASE f = "aggregator_main" -> "Welcome to the Aggregator API! All services are running."
    [] f = "main" -> "Welcome to the Passive AI Aggregator! See /features for a summary."
    [] f = "ep" -> "Welcome to the Aggregator API!"

\* A router's routes as the app holds them: the prefix before each template.
Mounted(inc) ==
  [j \in 1..Len(RouterRoutes(inc.module)) |->
     Route(<<inc.prefix>> \o RouterRoutes(inc.module)[j].t, RouterRoutes(inc.module)[j].h)]
\* app.routes, in registration order.
Routes(f) ==
  DocRoutes \o Flatten([i \in 1..Len(Included(f)) |-> Mounted(Included(f)[i])])
            \o AppRoutes(f)

\* A path parameter matches any one segment.
Matches(t, p) ==
  /\ Len(t) = Len(p)
  /\ \A i \in 1..Len(t) : t[i] \in ParamSegs \/ t[i] = p[i]
\* A router that serves a path by the last route that matches it.
route_last_match(f, p) ==
  LET r == Routes(f)
      hits == {i \in 1..Len(r) : Matches(r[i].t, p)}
  IN  IF hits = {} THEN "none"
      ELSE r[CHOOSE i \in hits : \A k \in hits : i >= k].h

\* Starlette's router: the first route, in registration order, that
\* matches; "none" when no route does.
route(f, p) ==
  LET r == Routes(f)
      hits == {i \in 1..Len(r) : Matches(r[i].t, p)}
  IN  IF hits = {} THEN "none"
      ELSE r[CHOOSE i \in hits : \A k \in hits : i <= k].h

\* The dict returned by features(): key and example_endpoint, the latter
\* without its query string.
Feature(key, example) == [prefix |-> key, example_endpoint |-> example]
features(f) ==
  IF f = "aggregator_main"
  THEN <<Feature("devto", <<"devto", "articles">>),
         Feature("kaggle", <<"kaggle", "datasets">>),
         Feature("codeforces", <<"codeforces", "contests">>),
         Feature("gitlab", <<"gitlab", "projects">>),
         Feature("pypi", <<"pypi", "latest">>),
         Feature("npm", <<"npm", "search">>),
         Feature("reddit", <<"reddit", "top", "programming">>),
         Feature("github", <<"github", "repos">>),
         Feature("hackernews", <<"hackernews", "topstories">>),
         Feature("stackoverflow", <<"stackoverflow", "questions">>)>>
  ELSE <<Feature("github", <<"github", "repos">>),
         Feature("stackoverflow", <<"stackoverflow", "featured">>),
         Feature("hackernews", <<"hackernews", "topstories">>),
         Feature("devto", <<"devto", "articles">>),
         Feature("kaggle", <<"kaggle", "datasets">>),
         Feature("codeforces", <<"codeforces", "contests">>),
         Feature("gitlab", <<"gitlab", "projects">>)>>

\* The path parameters of a request, as the matched template binds them.
Bind(h, p, x) ==
  CASE h \in {"devto.fetch_single_article", "hacker_news.get_story_item",
              "hacker_news.get_hn_user", "codeforces.get_user_info",
              "gfg.get_gfg_stats", "reddit.search_subreddit"} ->
         [x EXCEPT !.path = p, !.id = p[3]]
    [] h \in NpmEndpoints \cup PypiEndpoints -> [x EXCEPT !.path = p, !.id = p[2]]
    [] h = "github.fetch_pull_requests" ->
         [x EXCEPT !.path = p, !.owner = p[3], !.repo = p[4]]
    [] h = "github_ep.fetch_releases" ->
         [x EXCEPT !.path = p, !.owner = p[2], !.repo = p[3]]
    [] OTHER -> [x EXCEPT !.path = p]

\* The paths requested: under every prefix, every module's templates with
\* a value in place of each parameter, and the paths the listings name.
Sample(seg) ==
  CASE seg \in {"{article_id}", "{item_id}"} -> "7"
    [] seg = "{user_id}" -> "pg"
    [] seg = "{handle}" -> "petr"
    [] seg = "{username}" -> "alice"
    [] seg = "{package_name}" -> "left-pad"
    [] seg = "{owner}" -> "octocat"
    [] seg = "{repo}" -> "hello"
    [] seg = "{subreddit}" -> "python"
    [] OTHER -> seg
Prefixes == {"devto", "kaggle", "codeforces", "gitlab", "pypi", "npm", "reddit",
             "github", "hackernews", "stackoverflow", "gfg"}
SubPaths ==
  UNION {{[i \in 1..Len(RouterRoutes(m)[j].t) |-> Sample(RouterRoutes(m)[j].t[i])] :
            j \in 1..Len(RouterRoutes(m))} : m \in Modules}
RequestPaths ==
  {<<x>> \o s : x \in Prefixes,
                 s \in SubPaths \cup {<<"top", "programming">>, <<"latest">>}}
    \cup {<<"features">>, <<>>, <<"nowhere">>}
    \cup {DocRoutes[i].t : i \in 1..Len(DocRoutes)}

\* A request arrives at a facade: the router picks the handler, FastAPI
\* binds the parameters, and the handler runs to its first await or to its
\* response.  A path no route matches is answered 404 by the router.
Serve(p) ==
  /\ pc = "idle"
  /\ LET h == route(app, p)
     IN  CASE h = "none" ->
                /\ ep' = "none"
                /\ param' = [NoParam EXCEPT !.path = p]
                /\ pc' = "done"
                /\ resp' = <<HTTPException(404, <<"Not Found">>)>>
                /\ UNCHANGED <<app, cfg, client, calls, outs, batch, tasks>>
           [] h \in AppHandlers ->
                /\ ep' = h
                /\ param' = [NoParam EXCEPT !.path = p]
                /\ pc' = "done"
                /\ resp' = <<OK(CASE h = "features" -> features(app)
                                    [] h \in {"read_root", "root"} ->
                                         [message |-> root_message(app)]
                                    [] h \in DocHandlers -> [page |-> h])>>
                /\ UNCHANGED <<app, cfg, client, calls, outs, batch, tasks>>
           [] h \in FanEndpoints -> StartFan(h, [NoParam EXCEPT !.path = p])
           [] h \in SOEndpoints -> \E x \in SOParams : StartSO(h, Bind(h, p, x))
           [] OTHER -> \E x \in Params(h) : StartCall(h, Bind(h, p, x))

(***************************************************************************)
(* SpecRoute: the three facades serving requests for every sample path,    *)
(* with every setting present.                                             *)
(***************************************************************************)
InitRoute ==
  /\ app \in Facades
  /\ cfg = AllSet
  /\ Idle

NextRoute ==
  \/ \E p \in RequestPaths : Serve(p)
  \/ \E o \in Failures : FanFirstFails(o)
  \/ \E p \in FirstPayloads(ep) : FanFirstReturns(p)
  \/ \E i \in 1..Len(batch) : \E o \in FollowOutcomes(ep, batch[i]) : TaskCompletes(i, o)
  \/ \E i \in 1..Len(batch) : \E o \in FollowOutcomes(ep, batch[i]) : OrphanCompletes(i, o)
  \/ GatherReturns
  \/ HandlerReturns
  \/ \E o \in Failures \cup {Success(u) : u \in UserPayloads} : SOLookupReturns(o)
  \/ \E o \in Failures \cup {Success(q) : q \in PostPayloads} : SOFetchReturns(o)
  \/ \E o \in Failures \cup {Success(l) : l \in LoginPayloads} : PullsUserReturns(o)
  \/ \E o \in Outcomes(ep, param) : CallReturns(o)
  \/ Finish

SpecRoute == InitRoute /\ [][NextRoute]_vars

(***************************************************************************)
(* Fan-out: what the log of upstream answers says about the batch.         *)
(***************************************************************************)
FanAnswered == pc = "done" /\ ep \in FanEndpoints /\ outs # <<>>
K == Len(batch)
FailedAt(i) == outs[i + 1].kind \in {"status", "transport"}
M == Cardinality({i \in 1..K : FailedAt(i)})
\* The upstream answered call i with an item of type story.
StoryAt(i) ==
  /\ outs[i + 1].kind = "ok"
  /\ outs[i + 1].payload.json
  /\ outs[i + 1].payload.data # <<>>
  /\ outs[i + 1].payload.data[1].type = "story"
Positions(P(_)) == SelectSeq([i \in 1..K |-> i], P)
BodyIds == [j \in 1..Len(resp[1].body) |-> resp[1].body[j].id]
BodyProjects == [j \in 1..Len(resp[1].body) |-> resp[1].body[j].project]
\* The project names a merged pipelines result must show: for each project
\* whose call succeeded, in project order, one per pipeline it returned.
ExpectedProjects ==
  Flatten([i \in 1..K |->
            IF FailedAt(i) THEN <<>>
            ELSE [j \in 1..Len(outs[i + 1].payload) |-> batch[i].name]])

\* C1 as stated: a successful fan-out response has exactly k - m entries,
\* one for every identifier whose follow-up call did not fail, in the order
\* of the identifier list (GitLab: the pipelines of exactly those projects).
C1_ExactlyKMinusM ==
  (FanAnswered /\ resp[1].status = 200) =>
    IF ep \in HNFan
    THEN LET live == Positions(LAMBDA i : ~FailedAt(i))
         IN  /\ Len(resp[1].body) = K - M
             /\ BodyIds = [j \in 1..Len(live) |-> batch[live[j]]]
    ELSE BodyProjects = ExpectedProjects

\* C1 as amended: a successful Hacker News response has one entry for every
\* identifier whose follow-up call returned an item of type story, so at
\* most k - m of them, in the order of the identifier list; a successful
\* GitLab response has the pipelines of exactly the k - m projects whose
\* call did not fail, in project order.
C1_StoriesInIdOrder ==
  (FanAnswered /\ resp[1].status = 200) =>
    IF ep \in HNFan
    THEN LET live == Positions(StoryAt)
         IN  /\ Len(resp[1].body) <= K - M
             /\ BodyIds = [j \in 1..Len(live) |-> batch[live[j]]]
    ELSE BodyProjects = ExpectedProjects

\* A top/new stories batch of three in which one follow-up call failed and
\* the two other stories, of different ids, were returned.
C1_Witness ==
  /\ FanAnswered /\ ep \in HNFan /\ resp[1].status = 200
  /\ K = 3 /\ M = 1
  /\ Len(resp[1].body) = 2
  /\ resp[1].body[1].id # resp[1].body[2].id

\* C2: once the first stage has succeeded, no follow-up task, whatever its
\* call or its payload did, makes the request fail: the answer is a success.
C2_NoTaskFailsTheBatch ==
  (FanAnswered /\ outs[1].kind = "ok") => resp[1].status = 200

\* C3: when the first-stage call fails, the request ends with an error
\* response and no follow-up call is ever issued.
C3_FirstStageFailureFailsAll ==
  (ep \in FanEndpoints /\ outs # <<>> /\ outs[1].kind \in {"status", "transport"}) =>
    /\ pc = "done"
    /\ Len(calls) = 1
    /\ tasks = <<>>
    /\ resp[1].status = (IF outs[1].kind = "status" THEN outs[1].code ELSE 503)
    /\ resp[1].status >= 400

\* A stories request whose first-stage call met a transport failure.
C3_Witness ==
  /\ FanAnswered /\ ep \in HNFan
  /\ outs[1].kind = "transport"
  /\ resp[1].status = 503

(***************************************************************************)
(* Stack Overflow: whose id a request resolves to.                         *)
(***************************************************************************)
\* The highest-priority identity source that is present (0: none): the
\* user_id parameter, the configured id, the username parameter, the
\* configured username.  A source is present when its value is truthy.
Source ==
  IF TruthyInt(param.user_id) THEN 1
  ELSE IF cfg.STACKOVERFLOW_USER_ID # "" THEN 2
  ELSE IF TruthyStr(param.username) THEN 3
  ELSE IF cfg.STACKOVERFLOW_USERNAME # "" THEN 4
  ELSE 0

\* The handler's own call when made for the id written as `digits`.
UserItemsUrlFor(digits) ==
  <<SO_BASE_URL, "/users/", digits, "/", so_what(ep),
    "?order=desc&sort=creation&site=stackoverflow">>

\* After a lookup of `name`: nothing but that lookup has been issued, or
\* the handler's own call for the first user the lookup found.
LookedUp(name) ==
  /\ calls # <<>>
  /\ calls[1] = LookupUrl(name)
  /\ Len(calls) <= 2
  /\ Len(calls) = 2 =>
       /\ outs[1].kind = "ok"
       /\ calls[2] = UserItemsUrlFor(Str(outs[1].payload.items[1][1].user_id[1]))

\* C4: with no user_id, no username and neither default configured, the
\* request ends with status 400 and no upstream call was issued.
C4_NoIdentityIs400 ==
  (/\ ep \in SOEndpoints
   /\ param.user_id = <<>> /\ param.username = <<>>
   /\ cfg.STACKOVERFLOW_USER_ID = "" /\ cfg.STACKOVERFLOW_USERNAME = "") =>
    /\ pc = "done"
    /\ resp[1].status = 400
    /\ calls = <<>>

\* A questions request without any identity, answered.
C4_Witness ==
  /\ ep = "stackoverflow.fetch_questions" /\ pc = "done"
  /\ param.user_id = <<>> /\ param.username = <<>>
  /\ cfg.STACKOVERFLOW_USER_ID = "" /\ cfg.STACKOVERFLOW_USERNAME = ""
  /\ resp[1].status = 400

\* C5: the upstream calls of a request are those of the highest-priority
\* source that is present: the handler's own call for the given or the
\* configured id and no lookup, or one lookup of the given or the configured
\* name; a lower source is not consulted, even after a failed lookup.
C5_PriorityOrder ==
  ep \in SOEndpoints =>
    CASE Source = 1 -> calls = <<UserItemsUrlFor(Str(param.user_id[1]))>>
      [] Source = 2 -> calls = <<UserItemsUrlFor(cfg.STACKOVERFLOW_USER_ID)>>
      [] Source = 3 -> LookedUp(param.username[1])
      [] Source = 4 -> LookedUp(cfg.STACKOVERFLOW_USERNAME)
      [] Source = 0 -> calls = <<>>

\* An answered request that gave no user_id but a username, with both
\* defaults configured: the configured id was used and nothing looked up.
C5_Witness ==
  /\ ep \in SOEndpoints /\ pc = "done"
  /\ param.user_id = <<>> /\ param.username = <<"alice">>
  /\ cfg.STACKOVERFLOW_USER_ID = "7" /\ cfg.STACKOVERFLOW_USERNAME = "bob"
  /\ calls = <<UserItemsUrlFor("7")>>
  /\ resp[1].status = 200

(***************************************************************************)
(* The one-call endpoints: how upstream failures and missing settings are  *)
(* answered.                                                               *)
(***************************************************************************)
Answered == pc = "done" /\ resp # <<>>
\* The outcomes of the upstream calls the handler has waited for.
Seen == {outs[i] : i \in {j \in 1..Len(outs) : outs[j].kind # "pending"}}

\* C6: once a request is answered, if one of its upstream calls failed in
\* transport, the response is a 503 raised by the handler.
C6_TransportFailureIs503 ==
  (Answered /\ \E o \in Seen : o.kind = "transport") =>
    /\ resp[1].status = 503
    /\ ~resp[1].unhandled

\* The endpoints that look one resource up by an identifier of the request.
ByIdEndpoints ==
  NpmEndpoints \cup PypiEndpoints
    \cup {"devto.fetch_single_article", "github_ep.fetch_releases",
          "hacker_news.get_story_item", "hacker_news.get_hn_user",
          "codeforces.get_user_info"}
\* The identifier looked up, as the parts of text it is made of.
Identifier ==
  IF ep = "github_ep.fetch_releases" THEN {param.owner, param.repo} ELSE {param.id}

\* C7: once a by-identifier request is answered, if the upstream answered
\* 404, the response is a 404 whose message contains the identifier.
C7_NotFoundNamesTheIdentifier ==
  (/\ Answered
   /\ ep \in ByIdEndpoints
   /\ \E o \in Seen : o.kind = "status" /\ o.code = 404) =>
    /\ resp[1].status = 404
    /\ \A part \in Identifier : Has(resp[1].detail, part)

\* The endpoints whose request names a resource, for which an upstream 404
\* may be answered as "not found".
LookupEndpoints ==
  ByIdEndpoints \cup {"github.fetch_pull_requests", "gfg.get_gfg_stats",
                      "codeforces.get_default_user_info"}

\* C8: once a request is answered, if the upstream answered with an error
\* status, other than a 404 to a lookup, the response has that status and
\* its message contains the upstream's body.
C8_UpstreamStatusAndBodyPassedOn ==
  Answered =>
    \A o \in Seen :
      (o.kind = "status" /\ ~(o.code = 404 /\ ep \in LookupEndpoints)) =>
        /\ resp[1].status = o.code
        /\ Has(resp[1].detail, o.body)

\* The settings an endpoint requires that the configuration lacks.
Required(e) ==
  CASE e \in DevtoEndpoints -> {"DEVTO_API_KEY"}
    [] e \in GithubEndpoints -> {"GITHUB_TOKEN"}
    [] e \in GitlabEndpoints \cup {"gitlab.fetch_pipelines"} -> {"GITLAB_TOKEN"}
    [] e \in KaggleEndpoints -> {"KAGGLE_USERNAME", "KAGGLE_KEY"}
    [] e = "codeforces.get_default_user_info" -> {"CODEFORCES_HANDLE"}
    [] OTHER -> {}
Missing(e) == {s \in Required(e) : cfg[s] = ""}
SecretEndpoints ==
  DevtoEndpoints \cup GithubEndpoints \cup GitlabEndpoints \cup KaggleEndpoints
    \cup {"gitlab.fetch_pipelines"}

\* C9: a request to an endpoint of DEV.to, GitHub, GitLab or Kaggle whose
\* secret is missing ends with a 500 raised by the handler, and no upstream
\* call is ever issued for it; this holds of every request served.
C9_SecretMissingNoUpstreamCall ==
  (ep \in SecretEndpoints /\ Missing(ep) # {}) =>
    /\ Answered
    /\ resp[1].status = 500
    /\ ~resp[1].unhandled
    /\ calls = <<>>
    /\ outs = <<>>

\* A Kaggle request answered while only the key is missing.
C9_Witness ==
  /\ ep = "kaggle.fetch_datasets" /\ pc = "done"
  /\ cfg.KAGGLE_USERNAME # "" /\ cfg.KAGGLE_KEY = ""
  /\ resp[1].status = 500
  /\ calls = <<>>

\* C10: a request to an endpoint whose required secret or default identity
\* is missing is answered 500 with a message naming a missing setting.
C10_MissingSettingIs500AndNamed ==
  (ep \in CallEndpoints /\ Missing(ep) # {}) =>
    /\ Answered
    /\ resp[1].status = 500
    /\ \E s \in Missing(ep) : Has(resp[1].detail, s)

(***************************************************************************)
(* The list endpoints: caps and filters.                                   *)
(***************************************************************************)
\* The cap documented for each list endpoint.
DocumentedCap(e) ==
  CASE e \in HNFan \cup SOEndpoints
            \cup {"codeforces.get_contests", "github.fetch_repos",
                  "devto.fetch_articles"} -> 10
    [] e = "stackoverflow.fetch_featured_questions" -> 15
    [] e = "github_ep.fetch_releases" -> 30
CappedEndpoints == HNFan \cup SOEndpoints \cup CapEndpoints

\* C11: a success response of a capped list endpoint has at most the
\* documented number of entries, every story returned is of type story
\* and every contest returned is in phase BEFORE.
C11_CapAndFilter ==
  (Answered /\ ep \in CappedEndpoints /\ resp[1].status = 200) =>
    /\ Len(resp[1].body) <= DocumentedCap(ep)
    /\ ep \in HNFan =>
         \A j \in 1..Len(resp[1].body) : resp[1].body[j].type = "story"
    /\ ep = "codeforces.get_contests" =>
         \A j \in 1..Len(resp[1].body) : resp[1].body[j].phase = "BEFORE"

\* The contest list the upstream answered with, the positions in it of the
\* contests in phase BEFORE, and the rank of such a position among them.
UpContests == outs[1].payload.result[1]
BeforeAt == {j \in 1..Len(UpContests) : UpContests[j].phase = "BEFORE"}
Rank(j) == Cardinality({k \in BeforeAt : k <= j})
ContestsAnswered ==
  Answered /\ ep = "codeforces.get_contests" /\ resp[1].status = 200

\* C12: the contests returned are the first ten upstream contests in phase
\* BEFORE, in upstream order, each with the link built from its own id.
C12_UpcomingContests ==
  ContestsAnswered =>
    /\ Len(resp[1].body) = Cardinality({j \in BeforeAt : Rank(j) <= 10})
    /\ \A j \in BeforeAt :
         Rank(j) <= 10 =>
           /\ resp[1].body[Rank(j)].id = UpContests[j].id[1]
           /\ resp[1].body[Rank(j)].phase = "BEFORE"
           /\ resp[1].body[Rank(j)].link =
                <<"https://codeforces.com/contest/", Str(UpContests[j].id[1])>>

\* Eleven upstream contests, one of them over, ten returned: the finished
\* contest took no place among the ten.
C12_Witness ==
  /\ ContestsAnswered
  /\ Len(UpContests) = 11
  /\ Cardinality(BeforeAt) = 10
  /\ UpContests[1].phase = "FINISHED"
  /\ Len(resp[1].body) = 10
  /\ resp[1].body[10].id = 11

(***************************************************************************)
(* Optional fields.                                                        *)
(***************************************************************************)
\* The upstream answered the handler's last call with a payload that has
\* every required key of every object and lacks an optional one.
OptionalKeyAbsent ==
  /\ outs # <<>>
  /\ outs[Len(outs)].kind = "ok"
  /\ LET payload == outs[Len(outs)].payload
     IN  CASE ep = "stackoverflow.fetch_featured_questions" ->
                /\ ~MissingId(items_of(payload))
                /\ \E j \in 1..Len(items_of(payload)) :
                     items_of(payload)[j].bounty_amount = <<>>
           [] ep = "so.search_stackoverflow" ->
                /\ payload.items # <<>>
                /\ ~MissingId(payload.items[1])
                /\ \E j \in 1..Len(payload.items[1]) : payload.items[1][j].owner = <<>>
           [] ep = "gfg.get_gfg_stats" ->
                payload.json /\ payload.data.totalProblemsSolved = <<>>
           [] ep \in NpmEndpoints -> payload.name = <<>> \/ payload.latest = <<>>
           [] OTHER -> FALSE

\* C13: a request whose upstream payload lacks only optional keys is
\* answered with a success response.
C13_OptionalKeyAbsentIsSuccess ==
  (Answered /\ OptionalKeyAbsent) => resp[1].status = 200

(***************************************************************************)
(* The facades: discovery and the merged namespace.                        *)
(***************************************************************************)
\* The prefixes under which a facade has at least one route.
RoutedPrefixes(f) ==
  {Included(f)[i].prefix : i \in {k \in 1..Len(Included(f)) :
                                    RouterRoutes(Included(f)[k].module) # <<>>}}
FeaturesAsked == param.path = <<"features">>

\* C14: a facade answers GET /features with a listing whose keys are
\* exactly the prefixes under which it has a route.
C14_FeaturesListsRoutedPrefixes ==
  (app \in Facades /\ Answered /\ FeaturesAsked) =>
    /\ resp[1].status = 200
    /\ {resp[1].body[j].prefix : j \in 1..Len(resp[1].body)} = RoutedPrefixes(app)

\* The modules a facade mounts under a prefix, and the modules declaring a
\* handler.
Bound(f, prefix) ==
  {Included(f)[i].module : i \in {k \in 1..Len(Included(f)) :
                                    Included(f)[k].prefix = prefix}}
DeclaredIn(h) ==
  {m \in Modules : \E j \in 1..Len(RouterRoutes(m)) : RouterRoutes(m)[j].h = h}
Competing == {"github", "stackoverflow", "hackernews"}

\* C15: in every facade no two routes have the same path (every route is a
\* GET route), exactly one module is mounted under each of the prefixes
\* github, stackoverflow and hackernews, and a request whose path begins
\* with such a prefix and that a route matches is served by a handler of
\* the module mounted there.
C15_OneHandlerPerPath ==
  app \in Facades =>
    /\ LET r == Routes(app)
       IN  \A i, j \in 1..Len(r) : r[i].t = r[j].t => i = j
    /\ \A x \in Competing : Cardinality(Bound(app, x)) = 1
    /\ \A x \in Competing :
         (pc # "idle" /\ ep # "none" /\ param.path # <<>> /\ param.path[1] = x)
           => DeclaredIn(ep) = Bound(app, x)
C15_Witness ==
  /\ app = "aggregator_main"
  /\ Answered
  /\ ep = "github.fetch_repos"
  /\ param.path = <<"github", "repos">>
  /\ resp[1].status = 200

(***************************************************************************)
(* Failures of shape, of scraping and of request validation.               *)
(***************************************************************************)
PotdAnswered == Answered /\ ep = "gfg.get_gfg_potd"
\* The page came and holds the container with an anchor inside it.
PotdFound ==
  outs[1].kind = "ok" /\ outs[1].payload.div /\ outs[1].payload.a # <<>>

\* C16: the problem-of-the-day request succeeds only when the page came
\* with its container and the anchor inside it, and every other course
\* ends with the one generic 500 of the handler.
C16_ScrapeFailureIsOneError ==
  PotdAnswered =>
    IF PotdFound
    THEN resp[1].status = 200 /\ resp[1].body.link = outs[1].payload.a
    ELSE /\ resp[1].status = 500
         /\ resp[1].detail = <<"Failed to fetch or parse the GFG POTD page.">>

\* The endpoints with a required query parameter, and a request that
\* leaves one out or sends a search term of no character.
SearchEndpoints ==
  {"hn.search_hacker_news", "reddit.search_subreddit", "so.search_stackoverflow"}
BadQuery ==
  \/ param.query = <<>>
  \/ ep \in {"hn.search_hacker_news", "reddit.search_subreddit"} /\ param.query = <<"">>
  \/ ep = "so.search_stackoverflow" /\ param.tagged = <<>>

\* C17: a search request whose required query parameter is missing or
\* empty is answered 400, and no upstream call is issued for it.
C17_BadQueryIs400 ==
  (Answered /\ ep \in SearchEndpoints /\ BadQuery) =>
    resp[1].status = 400 /\ calls = <<>>

\* The endpoints the shape rule names, and a successful upstream answer of
\* a shape they do not expect: no 'result' key, a user without its handle,
\* an upcoming contest without its id, no 'login' key, an item without its
\* id.
ShapeEndpoints ==
  {"codeforces.get_contests", "codeforces.get_user_info",
   "codeforces.get_default_user_info", "github.fetch_my_pull_requests"}
Malformed ==
  /\ outs # <<>>
  /\ outs[Len(outs)].kind = "ok"
  /\ LET payload == outs[Len(outs)].payload
     IN  CASE ep = "codeforces.get_contests" ->
                \/ payload.result = <<>>
                \/ \E j \in 1..Len(payload.result[1]) :
                     /\ payload.result[1][j].phase = "BEFORE"
                     /\ payload.result[1][j].id = <<>>
           [] ep \in {"codeforces.get_user_info", "codeforces.get_default_user_info"} ->
                \/ payload.result = <<>>
                \/ /\ payload.result[1] # <<>>
                   /\ payload.result[1][1].handle = <<>>
           [] ep = "github.fetch_my_pull_requests" ->
                IF Len(outs) = 1 THEN payload.login = <<>>
                ELSE MissingId(items_of(payload))
           [] OTHER -> FALSE

\* C18: a request whose upstream answered successfully with a payload of
\* an unexpected shape is answered 500.
C18_UnexpectedShapeIs500 ==
  (Answered /\ ep \in ShapeEndpoints /\ Malformed) => resp[1].status = 500

(***************************************************************************)
(* The fan-out coordinator and the order of filter and cap.                *)
(***************************************************************************)
\* C19: when a fan-out request is answered, every follow-up task that was
\* dispatched has completed.
C19_AnswerAfterEveryTask ==
  (Answered /\ ep \in FanEndpoints) =>
    \A k \in 1..Len(outs) : outs[k].kind # "pending"

\* C20: the contests returned are as many as the upstream contests in
\* phase BEFORE, up to ten; and a stories response of fewer than ten
\* entries comes only after every upstream id was examined.
C20_CapAfterFilter ==
  /\ ContestsAnswered =>
       Len(resp[1].body) = Cardinality({j \in BeforeAt : Rank(j) <= ContestCap})
  /\ (Answered /\ ep \in HNFan /\ resp[1].status = 200) =>
       \/ Len(resp[1].body) = StoryCap
       \/ Len(batch) = Len(outs[1].payload)

(***************************************************************************)
(* Upstream call policy: one attempt per call.                             *)
(***************************************************************************)
Failed(o) == o.kind \in {"status", "transport"}
\* In one step, no call that is known to have failed when the step ends is
\* among the calls the step issues.
NoReissue ==
  \A k \in 1..Len(calls) :
    (k <= Len(outs') /\ Failed(outs'[k])) =>
      \A j \in (Len(calls) + 1)..Len(calls') : calls'[j] # calls[k]

\* C21: within a request, a call that failed, by status or in transport,
\* is never issued again, in any adapter, the follow-up calls of a fan-out
\* included.
C21_NoRetry == [][NoReissue]_vars
\* A pipelines request answered after one project's follow-up call failed:
\* one call for the project list and one per project were issued.
C21_Witness ==
  /\ Answered
  /\ ep = "gitlab.fetch_pipelines"
  /\ Len(batch) = 2
  /\ Failed(outs[2])
  /\ outs[3].kind = "ok"
  /\ Len(calls) = Len(batch) + 1
  /\ resp[1].status = 200

(***************************************************************************)
(* Derived links.                                                          *)
(***************************************************************************)
\* Identifiers a client may have put in the path instead of the one sent.
OtherHandles == {"petr", "tourist", "Tourist", "me"}
OtherSubreddits == {"python", "rust", "pyhton"}
Urls(posts) == [j \in 1..Len(posts) |-> posts[j].url]
Succeeded == Answered /\ resp[1].status = 200

\* C22: the profile link of a Codeforces user and the url of each Reddit
\* post are the ones any other identifier in the path would have got for
\* the same upstream payload, built from the handle and the permalink the
\* upstream sent; a Kaggle dataset's url is built from the upstream's ref.
C22_LinksFromUpstreamIdentifier ==
  Succeeded =>
    /\ ep = "codeforces.get_user_info" =>
         /\ \A h \in OtherHandles :
              get_user_info(h, outs[1]).body.profileLink = resp[1].body.profileLink
         /\ resp[1].body.profileLink =
              <<"https://codeforces.com/profile/", outs[1].payload.result[1][1].handle[1]>>
    /\ ep = "reddit.search_subreddit" =>
         \A r \in OtherSubreddits :
           Urls(search_subreddit(r, param.query[1], outs[1]).body) = Urls(resp[1].body)
    /\ ep = "kaggle.fetch_datasets" =>
         \A j \in 1..Len(resp[1].body) :
           resp[1].body[j].url =
             <<"https://www.kaggle.com/datasets/", Str(outs[1].payload[j].id[1])>>
\* A profile asked for as petr, confirmed by the upstream as tourist.
C22_Witness ==
  /\ Succeeded
  /\ ep = "codeforces.get_user_info"
  /\ param.id = "petr"
  /\ outs[1].payload.result[1][1].handle = <<"tourist">>
  /\ resp[1].body.profileLink = <<"https://codeforces.com/profile/", "tourist">>

(***************************************************************************)
(* Synthesized fields.                                                     *)
(***************************************************************************)
UserAnswered ==
  /\ Succeeded
  /\ ep \in {"codeforces.get_user_info", "codeforces.get_default_user_info"}

\* C23: the last-seen string and the profile link of a user are the ones
\* the same upstream payload gives in a process of any local time zone.
C23_SynthesizedFromPayloadOnly ==
  UserAnswered =>
    LET u == outs[1].payload.result[1][1]
    IN  /\ resp[1].body.profileLink = <<"https://codeforces.com/profile/", u.handle[1]>>
        /\ \A tz \in TimeZones :
             resp[1].body.lastOnline =
               IF ~TruthyInt(u.lastOnlineTimeSeconds) THEN <<>>
               ELSE <<strftime(u.lastOnlineTimeSeconds[1], tz)>>

(***************************************************************************)
(* The combined namespace: reachability, examples, overlapping routes.     *)
(***************************************************************************)
\* The prefixes under which a facade mounts a module.
PrefixesOf(f, m) ==
  {Included(f)[i].prefix : i \in {k \in 1..Len(Included(f)) :
                                    Included(f)[k].module = m}}

\* C24: the aggregator mounts every router module of the repository under
\* exactly one prefix, and a request for the problem of the day under /gfg
\* reaches its handler.
C24_EveryRouterMounted ==
  app = "aggregator_main" =>
    /\ \A m \in Modules : Cardinality(PrefixesOf(app, m)) = 1
    /\ (pc # "idle" /\ param.path = <<"gfg", "potd">>) => ep = "gfg.get_gfg_potd"

\* The handlers that do what the description of a source in the listing
\* says; none lists the latest packages of PyPI, searches npm or lists the
\* top posts of a subreddit.
Described(key) ==
  CASE key = "devto" -> {"devto.fetch_articles"}
    [] key = "kaggle" -> {"kaggle.fetch_datasets"}
    [] key = "codeforces" -> {"codeforces.get_contests"}
    [] key = "gitlab" -> {"gitlab.fetch_projects"}
    [] key = "github" -> {"github.fetch_repos"}
    [] key = "hackernews" -> {"hacker_news.get_top_stories"}
    [] key = "stackoverflow" ->
         {"stackoverflow.fetch_questions", "stackoverflow.fetch_featured_questions"}
    [] OTHER -> {}
Examples(f) ==
  IF f \in {"aggregator_main", "main"}
  THEN {features(f)[j].example_endpoint : j \in 1..Len(features(f))}
  ELSE {}

\* C25: a request for the example path of a listed source is served by a
\* handler mounted under that source's prefix, the one its description
\* names.
C25_ExamplesAreServed ==
  (app \in Facades /\ pc # "idle" /\ param.path \in Examples(app)) =>
    /\ ep # "none"
    /\ DeclaredIn(ep) \cap Bound(app, param.path[1]) # {}
    /\ ep \in Described(param.path[1])

\* C27: under a facade that mounts the Codeforces router, /userinfo/me is
\* served by the default-user handler and /userinfo/<handle>, for another
\* handle, by the parameterised handler with that handle.
C27_MeBeforeHandle ==
  (app \in {"aggregator_main", "main"} /\ pc # "idle" /\ Len(param.path) = 3
     /\ param.path[1] = "codeforces" /\ param.path[2] = "userinfo") =>
    IF param.path[3] = "me"
    THEN ep = "codeforces.get_default_user_info" /\ param.id = ""
    ELSE ep = "codeforces.get_user_info" /\ param.id = param.path[3]
C27_Witness ==
  /\ app = "aggregator_main"
  /\ Succeeded
  /\ param.path = <<"codeforces", "userinfo", "me">>
  /\ ep = "codeforces.get_default_user_info"
  /\ calls = <<Url("codeforces.get_default_user_info", param)>>

(***************************************************************************)
(* The fan-out and its client.                                             *)
(***************************************************************************)
\* C26: while a follow-up call of a fan-out request is in flight, the
\* client the calls were issued on is open.
C26_ClientOpenWhileInFlight ==
  (ep \in FanEndpoints /\ \E k \in 1..Len(outs) : outs[k].kind = "pending") =>
    client = "open"

(***************************************************************************)
(* The two-stage endpoints.                                                *)
(***************************************************************************)
\* The request began with a lookup: of a user's id by name, of the login.
LookupFirst ==
  /\ calls # <<>>
  /\ \/ ep \in SOEndpoints /\ Resolution.via = "lookup"
     \/ ep = "github.fetch_my_pull_requests"
\* The identifier the lookup returned, <<>> when it returned none.
Returned ==
  IF outs[1].kind # "ok" THEN <<>>
  ELSE IF ep \in SOEndpoints
  THEN IF items_of(outs[1].payload) = <<>> THEN <<>>
       ELSE items_of(outs[1].payload)[1].user_id
  ELSE outs[1].payload.login
SecondUrl(x) ==
  IF ep \in SOEndpoints THEN UserItemsUrl(ep, x) ELSE PullsSearchUrl(x)

\* C28: in a request that begins with a lookup, a second call is there
\* only when the lookup succeeded and returned an identifier, and it is the
\* call for that identifier; when the lookup has ended without one, the
\* request is answered with an error and the lookup is its only call.
C28_SecondStageAfterFirst ==
  LookupFirst =>
    /\ Len(calls) <= 2
    /\ Len(calls) = 2 =>
         /\ outs[1].kind = "ok"
         /\ Returned # <<>>
         /\ calls[2] = SecondUrl(Returned[1])
    /\ (outs[1].kind # "pending" /\ Returned = <<>>) =>
         /\ Len(calls) = 1
         /\ Answered
         /\ resp[1].status # 200
\* Two users found by name: the items asked for are those of the first.
C28_Witness ==
  /\ Succeeded
  /\ ep = "stackoverflow.fetch_questions"
  /\ calls[1] = LookupUrl("alice")
  /\ Len(items_of(outs[1].payload)) = 2
  /\ calls[2] = UserItemsUrl(ep, 9)

(***************************************************************************)
(* Identity resolution: the number of calls.                               *)
(***************************************************************************)
\* The calls of the request that look a name up.
Lookups ==
  {k \in 1..Len(calls) :
     calls[k][2] = "/users?order=desc&sort=reputation&inname="}
IdAvailable == TruthyInt(param.user_id) \/ cfg.STACKOVERFLOW_USER_ID # ""
NameAvailable == TruthyStr(param.username) \/ cfg.STACKOVERFLOW_USERNAME # ""

\* C29: a questions or answers request issues no lookup when an explicit
\* id other than 0 or a configured id is there, exactly one lookup when
\* only a name is there, no call at all when neither is, and never more
\* than two calls; an explicit id of 0 is never the id asked for.
C29_LookupCount ==
  (ep \in SOEndpoints /\ pc # "idle") =>
    /\ Len(calls) <= 2
    /\ IdAvailable => Lookups = {}
    /\ (~IdAvailable /\ NameAvailable) => Lookups = {1}
    /\ (~IdAvailable /\ ~NameAvailable) => calls = <<>>
    /\ param.user_id = <<0>> =>
         \A k \in 1..Len(calls) : calls[k] # UserItemsUrl(ep, 0)
\* An explicit id of 0 with an explicit name: the name was looked up.
C29_Witness ==
  /\ Succeeded
  /\ ep \in SOEndpoints
  /\ param.user_id = <<0>>
  /\ param.username = <<"alice">>
  /\ cfg.STACKOVERFLOW_USER_ID = ""
  /\ Len(calls) = 2
  /\ calls[1] = LookupUrl("alice")

(***************************************************************************)
(* GitLab pipelines: the merged result, project by project.                *)
(***************************************************************************)
PipelinesAnswered ==
  FanAnswered /\ ep = "gitlab.fetch_pipelines" /\ resp[1].status = 200
\* The number of records project i contributes, and the number contributed
\* by the projects before it.
Contributed(i) == IF FailedAt(i) THEN 0 ELSE Len(outs[i + 1].payload)
RECURSIVE Before(_)
Before(i) == IF i <= 1 THEN 0 ELSE Before(i - 1) + Contributed(i - 1)

\* C30: the merged pipelines are, for each project in first-stage order,
\* the pipelines its own call returned, each under that project's name, one
\* group after the other; a project whose call failed has no record.
C30_PipelinesGroupedByProject ==
  PipelinesAnswered =>
    /\ Len(resp[1].body) = Before(K + 1)
    /\ \A i \in 1..K : \A j \in 1..Contributed(i) :
         /\ resp[1].body[Before(i) + j].project = batch[i].name
         /\ resp[1].body[Before(i) + j].pipeline_id = outs[i + 1].payload[j].id[1]
\* Three projects: the call of the first failed, the second returned two
\* pipelines and the third one.
C30_Witness ==
  /\ PipelinesAnswered
  /\ K = 3
  /\ batch[2].name # batch[3].name
  /\ FailedAt(1)
  /\ Contributed(2) = 2
  /\ Contributed(3) = 1
  /\ Len(resp[1].body) = 3
  /\ resp[1].body[1].project = batch[2].name
  /\ resp[1].body[3].project = batch[3].name

====
